---- MODULE Spec2Model ----
(***************************************************************************)
(* The issue-tracker export pipeline of the Blueprint CLI: the Jira, the   *)
(* Linear and the GitHub exporter, each an export() run against a remote   *)
(* system whose calls may fail, and a preview() that fabricates the same   *)
(* entities locally.                                                       *)
(*                                                                         *)
(* Text is modelled at the level the exporters' regular expressions see    *)
(* it: a document is a sequence of lines, a header line carries the        *)
(* capture groups of the phase regex, a bullet line its indentation and    *)
(* its whitespace-separated tokens.  Dates are day numbers.                *)
(***************************************************************************)
EXTENDS Integers, Sequences, FiniteSets, TLC

\* ------------------------------------------------------------------ bounds

\* Network calls that may fail in one run.
MaxFail == 2
\* export()/preview() calls made one after the other on one exporter instance.
MaxRuns == 2
\* The day "new Date()" returns during the runs.
Today == 100

\* An absent optional value (undefined) of a string field.
Undefined == "undefined"
\* An absent optional date (dates are day numbers >= 1).
NoDate == 0
\* An absent optional estimate / story-point number.
NoNumber == -1

\* ----------------------------------------------------------------- strings

Digit == <<"0", "1", "2", "3", "4", "5", "6", "7", "8", "9">>

RECURSIVE IntToStr(_)
\* Template-literal formatting of a non-negative number: `${n}`.
IntToStr(n) == IF n < 10 THEN Digit[n + 1]
               ELSE IntToStr(n \div 10) \o Digit[(n % 10) + 1]

\* The lower-case letter of each upper-case letter.
LowerOf ==
    LET upper == <<"A", "B", "C", "D", "E", "F", "G", "H", "I", "J", "K", "L", "M",
                   "N", "O", "P", "Q", "R", "S", "T", "U", "V", "W", "X", "Y", "Z">>
        lower == <<"a", "b", "c", "d", "e", "f", "g", "h", "i", "j", "k", "l", "m",
                   "n", "o", "p", "q", "r", "s", "t", "u", "v", "w", "x", "y", "z">>
    IN  [c \in {upper[i] : i \in 1..26} |-> lower[CHOOSE i \in 1..26 : upper[i] = c]]

RECURSIVE LowerFrom(_, _)
\* The characters of s from position i on, each upper-case letter replaced.
LowerFrom(s, i) ==
    IF i > Len(s) THEN ""
    ELSE LET c == SubSeq(s, i, i)
         IN  (IF c \in DOMAIN LowerOf THEN LowerOf[c] ELSE c) \o LowerFrom(s, i + 1)

\* String.prototype.toLowerCase
toLowerCase(s) == LowerFrom(s, 1)

\* String.prototype.includes
includes(s, sub) == \E i \in 0..(Len(s) - Len(sub)) : SubSeq(s, i + 1, i + Len(sub)) = sub

RECURSIVE trimStart(_)
trimStart(s) == IF Len(s) > 0 /\ SubSeq(s, 1, 1) = " " THEN trimStart(SubSeq(s, 2, Len(s))) ELSE s
RECURSIVE trimEnd(_)
trimEnd(s) == IF Len(s) > 0 /\ SubSeq(s, Len(s), Len(s)) = " "
              THEN trimEnd(SubSeq(s, 1, Len(s) - 1)) ELSE s
\* String.prototype.trim
trim(s) == trimEnd(trimStart(s))

RECURSIVE JoinWith(_, _)
\* Array.prototype.join
JoinWith(seq, sep) == IF Len(seq) = 0 THEN ""
                      ELSE IF Len(seq) = 1 THEN seq[1]
                      ELSE seq[1] \o sep \o JoinWith(Tail(seq), sep)

\* Array.prototype.filter
RECURSIVE SelectIdx(_, _, _)
SelectIdx(seq, Keep(_), i) ==
    IF i > Len(seq) THEN <<>>
    ELSE (IF Keep(seq[i]) THEN <<seq[i]>> ELSE <<>>) \o SelectIdx(seq, Keep, i + 1)

RECURSIVE FlatSeq(_)
\* Array.prototype.flat of a sequence of sequences
FlatSeq(ss) == IF Len(ss) = 0 THEN <<>> ELSE ss[1] \o FlatSeq(Tail(ss))

Range(seq) == {seq[i] : i \in 1..Len(seq)}


RECURSIVE DigitsLen(_)
\* Length of the longest prefix of s made of decimal digits (the regex \d+).
DigitsLen(s) == IF Len(s) > 0 /\ SubSeq(s, 1, 1) \in Range(Digit)
                THEN 1 + DigitsLen(SubSeq(s, 2, Len(s))) ELSE 0

RECURSIVE parseInt(_)
\* parseInt(s, 10) of a string of digits
parseInt(s) == IF Len(s) = 0 THEN 0
               ELSE 10 * parseInt(SubSeq(s, 1, Len(s) - 1))
                    + ((CHOOSE d \in 1..10 : Digit[d] = SubSeq(s, Len(s), Len(s))) - 1)

\* -------------------------------------------------------------- documents

(* A line of a document.  k = "h": a markdown header "#..# kw ws num sep rest",
   the groups of the exporters' phase regex, with the ISO dates found in the
   500 characters after it; k = "b": a bullet "- tok tok .." with its
   indentation; k = "n": a numbered-list line "1. tok tok .."; k = "t": any
   other line. *)
Header(hashes, kw, ws, num, sep, rest, dates) ==
    [k |-> "h", hashes |-> hashes, kw |-> kw, ws |-> ws, num |-> num, sep |-> sep,
     rest |-> rest, dates |-> dates, indent |-> 0, toks |-> <<>>]
Bullet(indent, toks) ==
    [k |-> "b", hashes |-> 0, kw |-> "", ws |-> "", num |-> "", sep |-> "",
     rest |-> "", dates |-> <<>>, indent |-> indent, toks |-> toks]
Numbered(toks) ==
    [k |-> "n", hashes |-> 0, kw |-> "", ws |-> "", num |-> "", sep |-> "",
     rest |-> "", dates |-> <<>>, indent |-> 0, toks |-> toks]
Plain(toks) ==
    [k |-> "t", hashes |-> 0, kw |-> "", ws |-> "", num |-> "", sep |-> "",
     rest |-> "", dates |-> <<>>, indent |-> 0, toks |-> toks]

\* The text of a header after its #s: match[0] of /^#{2,3}\s+(.+)$/ is "## " + this.
HeaderText(h) == h.kw \o h.ws \o h.num \o h.sep \o h.rest

\* ------------------------------------------------------- marker extraction

\* A token "[...]": its inside, else "".
Inside(tok) == IF Len(tok) >= 2 /\ SubSeq(tok, 1, 1) = "[" /\ SubSeq(tok, Len(tok), Len(tok)) = "]"
               THEN SubSeq(tok, 2, Len(tok) - 1) ELSE ""

(* A character outside ASCII is written as its UTF-16 code units, each unit as
   "<u+xxxx>": a JavaScript string is a sequence of such units, and a regular
   expression without the u flag matches them one by one. *)
RED_CIRCLE == "<u+d83d><u+dd34>"
ORANGE_CIRCLE == "<u+d83d><u+dfe0>"
YELLOW_CIRCLE == "<u+d83d><u+dfe1>"
GREEN_CIRCLE == "<u+d83d><u+dfe2>"

RECURSIVE JsLength(_)
\* String.prototype.length: the number of UTF-16 code units
JsLength(s) == IF Len(s) = 0 THEN 0
               ELSE IF Len(s) >= 8 /\ SubSeq(s, 1, 3) = "<u+" /\ SubSeq(s, 8, 8) = ">"
               THEN 1 + JsLength(SubSeq(s, 9, Len(s)))
               ELSE 1 + JsLength(SubSeq(s, 2, Len(s)))

RECURSIVE StripUnits(_, _)
\* s.replace(/[...]/g, '') for a character class of the code units in units
StripUnits(s, units) ==
    IF Len(s) = 0 THEN ""
    ELSE IF Len(s) >= 8 /\ SubSeq(s, 1, 3) = "<u+" /\ SubSeq(s, 8, 8) = ">"
    THEN (IF SubSeq(s, 1, 8) \in units THEN "" ELSE SubSeq(s, 1, 8))
         \o StripUnits(SubSeq(s, 9, Len(s)), units)
    ELSE SubSeq(s, 1, 1) \o StripUnits(SubSeq(s, 2, Len(s)), units)

LabelVocabulary == {"feature", "bug", "tech-debt", "research", "design", "devops",
                    "security", "testing", "documentation"}

\* /\[(feature|bug|...|documentation)\]/gi matches the token
IsLabelTok(tok) == toLowerCase(Inside(tok)) \in LabelVocabulary

\* /\[p[0-3]\]/gi matches the token
IsPTok(tok) == toLowerCase(Inside(tok)) \in {"p0", "p1", "p2", "p3"}

\* text.toLowerCase().includes(marker), the text being the tokens joined by blanks
HasMarker(toks, marker) == includes(toLowerCase(JoinWith(toks, " ")), marker)

\* extractLabels (the Jira and the Linear exporter hold the same code)
extractLabels(toks) ==
    LET labs == SelectIdx(toks, IsLabelTok, 1)
    IN  [i \in 1..Len(labs) |-> toLowerCase(Inside(labs[i]))]

\* --- Jira
JiraExtractPriority(toks) ==
    IF HasMarker(toks, "[p0]") \/ HasMarker(toks, "[urgent]") \/ HasMarker(toks, "[highest]")
    THEN "Highest"
    ELSE IF HasMarker(toks, "[p1]") \/ HasMarker(toks, "[high]") THEN "High"
    ELSE IF HasMarker(toks, "[p2]") \/ HasMarker(toks, "[medium]") THEN "Medium"
    ELSE IF HasMarker(toks, "[p3]") \/ HasMarker(toks, "[low]") THEN "Low"
    ELSE IF HasMarker(toks, "[lowest]") THEN "Lowest"
    ELSE Undefined

\* /\[(\d+)\s*(?:pt|sp|points?)\]/i matches the token
IsStoryPointTok(tok) ==
    LET in == Inside(tok)
        n  == DigitsLen(in)
    IN  n > 0 /\ toLowerCase(trimStart(SubSeq(in, n + 1, Len(in)))) \in {"pt", "sp", "point", "points"}

JiraExtractStoryPoints(toks) ==
    LET ms == SelectIdx(toks, IsStoryPointTok, 1)
    IN  IF Len(ms) = 0 THEN NoNumber
        ELSE parseInt(SubSeq(Inside(ms[1]), 1, DigitsLen(Inside(ms[1]))))

(* One token after the five replace() calls of JiraExporter.cleanTaskTitle.  The
   character class of the last one holds, in the source file, the characters
   U+00F0 U+0178 U+201D U+00B4 U+00A0 U+00A1 U+00A2 (the bytes of the circles
   read in another encoding), and none of the code units of the circles. *)
JiraCleanTok(tok) ==
    IF \/ IsPTok(tok)
       \/ toLowerCase(Inside(tok)) \in {"urgent", "highest", "high", "medium", "low", "lowest"}
       \/ IsStoryPointTok(tok)
       \/ IsLabelTok(tok)
    THEN ""
    ELSE StripUnits(tok, {"<u+00f0>", "<u+0178>", "<u+201d>", "<u+00b4>", "<u+00a0>", "<u+00a1>",
                          "<u+00a2>"})

JiraCleanTaskTitle(toks) ==
    trim(JoinWith([i \in 1..Len(toks) |-> JiraCleanTok(toks[i])], " "))

\* --- Linear
LinearExtractPriority(toks) ==
    IF HasMarker(toks, "[p0]") \/ HasMarker(toks, "[urgent]") \/ HasMarker(toks, RED_CIRCLE)
    THEN "urgent"
    ELSE IF HasMarker(toks, "[p1]") \/ HasMarker(toks, "[high]") \/ HasMarker(toks, ORANGE_CIRCLE)
    THEN "high"
    ELSE IF HasMarker(toks, "[p2]") \/ HasMarker(toks, "[medium]") \/ HasMarker(toks, YELLOW_CIRCLE)
    THEN "medium"
    ELSE IF HasMarker(toks, "[p3]") \/ HasMarker(toks, "[low]") \/ HasMarker(toks, GREEN_CIRCLE)
    THEN "low"
    ELSE "none"

mapPriority(priority) ==
    CASE priority = "urgent" -> 1
      [] priority = "high" -> 2
      [] priority = "medium" -> 3
      [] priority = "low" -> 4
      [] OTHER -> 0

\* /\[(\d+)(h|d|pt|w)\]/i matches the token
IsEstimateTok(tok) ==
    LET in == Inside(tok)
        n  == DigitsLen(in)
    IN  n > 0 /\ toLowerCase(SubSeq(in, n + 1, Len(in))) \in {"h", "d", "pt", "w"}

LinearExtractEstimate(toks) ==
    LET ms == SelectIdx(toks, IsEstimateTok, 1)
    IN  IF Len(ms) = 0 THEN NoNumber
        ELSE LET in    == Inside(ms[1])
                 n     == DigitsLen(in)
                 value == parseInt(SubSeq(in, 1, n))
                 unit  == toLowerCase(SubSeq(in, n + 1, Len(in)))
             IN  CASE unit = "h" -> value
                   [] unit = "d" -> value * 8
                   [] unit = "w" -> value * 40
                   [] OTHER -> value

(* One token after the five replace() calls of LinearExporter.cleanTaskTitle.  The
   character class of the last one holds the four circles: in a regular
   expression without the u flag, the five code units they are made of. *)
LinearCleanTok(tok) ==
    IF \/ IsPTok(tok)
       \/ toLowerCase(Inside(tok)) \in {"urgent", "high", "medium", "low"}
       \/ IsEstimateTok(tok)
       \/ IsLabelTok(tok)
    THEN "" ELSE StripUnits(tok, {"<u+d83d>", "<u+dd34>", "<u+dfe0>", "<u+dfe1>", "<u+dfe2>"})

LinearCleanTaskTitle(toks) ==
    trim(JoinWith([i \in 1..Len(toks) |-> LinearCleanTok(toks[i])], " "))

\* ------------------------------------------------------------ task parsing

\* A faulty variant of IsBulletLine: every line with text is taken for a bullet.
IsBulletLineAny(line) == Len(line.toks) > 0

\* line.match(/^[\s]*[-*]\s*(?:\[[ x]\])?\s*(.+)/)
IsBulletLine(line) == line.k = "b" /\ Len(line.toks) > 0

\* A faulty variant of IsTopLevel: every bullet opens a work item.
IsTopLevelAlways(indent) == TRUE

\* A faulty variant of IsTopLevel: a bullet indented by less than 8 opens a work item.
IsTopLevelBelow8(indent) == indent < 8

\* indent < 4: the bullet opens a top-level work item (indent >= 4: it is a child)
IsTopLevel(indent) == indent < 4

RECURSIVE JiraBulletScan(_, _, _)
\* The line loop of parseStoriesFromMarkdown; currentStory is the last story pushed.
JiraBulletScan(lines, i, stories) ==
    IF i > Len(lines) THEN stories
    ELSE LET line == lines[i] IN
         IF ~IsBulletLine(line) THEN JiraBulletScan(lines, i + 1, stories)
         ELSE LET priority    == JiraExtractPriority(line.toks)
                  storyPoints == JiraExtractStoryPoints(line.toks)
                  labels      == extractLabels(line.toks)
                  summary     == JiraCleanTaskTitle(line.toks)
              IN  IF IsTopLevel(line.indent) /\ JsLength(summary) > 3
                  THEN JiraBulletScan(lines, i + 1,
                         Append(stories, [summary |-> summary, priority |-> priority,
                                          storyPoints |-> storyPoints, labels |-> labels,
                                          tasks |-> <<>>]))
                  ELSE IF Len(stories) > 0 /\ ~IsTopLevel(line.indent) /\ JsLength(summary) > 3
                  THEN JiraBulletScan(lines, i + 1,
                         [stories EXCEPT ![Len(stories)].tasks =
                             Append(@, [summary |-> summary, priority |-> priority])])
                  ELSE JiraBulletScan(lines, i + 1, stories)

RECURSIVE JiraNumberedScan(_, _, _)
\* The numbered-list loop of parseStoriesFromMarkdown.
JiraNumberedScan(lines, i, stories) ==
    IF i > Len(lines) THEN stories
    ELSE LET line     == lines[i]
             taskText == trim(JoinWith(line.toks, " "))
         IN  IF line.k = "n" /\ Len(line.toks) > 0 /\ JsLength(taskText) > 3
                /\ ~\E j \in 1..Len(stories) : stories[j].summary = taskText
             THEN JiraNumberedScan(lines, i + 1,
                    Append(stories, [summary |-> JiraCleanTaskTitle(line.toks),
                                     priority |-> JiraExtractPriority(line.toks),
                                     storyPoints |-> JiraExtractStoryPoints(line.toks),
                                     labels |-> extractLabels(line.toks),
                                     tasks |-> <<>>]))
             ELSE JiraNumberedScan(lines, i + 1, stories)

parseStoriesFromMarkdown(content) == JiraNumberedScan(content, 1, JiraBulletScan(content, 1, <<>>))

RECURSIVE JiraExtractTaskBreakdowns(_)
JiraExtractTaskBreakdowns(docs) ==
    IF Len(docs) = 0 THEN <<>>
    ELSE LET stories == parseStoriesFromMarkdown(docs[1].content)
         IN  (IF Len(stories) > 0 THEN <<[stories |-> stories]>> ELSE <<>>)
             \o JiraExtractTaskBreakdowns(Tail(docs))

RECURSIVE LinearBulletScan(_, _, _)
\* The line loop of parseTasksFromMarkdown; currentTask is the last task pushed.
LinearBulletScan(lines, i, tasks) ==
    IF i > Len(lines) THEN tasks
    ELSE LET line == lines[i] IN
         IF ~IsBulletLine(line) THEN LinearBulletScan(lines, i + 1, tasks)
         ELSE LET priority == LinearExtractPriority(line.toks)
                  estimate == LinearExtractEstimate(line.toks)
                  labels   == extractLabels(line.toks)
                  title    == LinearCleanTaskTitle(line.toks)
              IN  IF IsTopLevel(line.indent) /\ JsLength(title) > 3
                  THEN LinearBulletScan(lines, i + 1,
                         Append(tasks, [title |-> title, priority |-> priority,
                                        estimate |-> estimate, labels |-> labels,
                                        subtasks |-> <<>>]))
                  ELSE IF Len(tasks) > 0 /\ ~IsTopLevel(line.indent) /\ JsLength(title) > 3
                  THEN LinearBulletScan(lines, i + 1,
                         [tasks EXCEPT ![Len(tasks)].subtasks =
                             Append(@, [title |-> title, priority |-> priority,
                                        estimate |-> estimate])])
                  ELSE LinearBulletScan(lines, i + 1, tasks)

RECURSIVE LinearNumberedScan(_, _, _)
LinearNumberedScan(lines, i, tasks) ==
    IF i > Len(lines) THEN tasks
    ELSE LET line     == lines[i]
             taskText == trim(JoinWith(line.toks, " "))
         IN  IF line.k = "n" /\ Len(line.toks) > 0 /\ JsLength(taskText) > 3
                /\ ~\E j \in 1..Len(tasks) : tasks[j].title = taskText
             THEN LinearNumberedScan(lines, i + 1,
                    Append(tasks, [title |-> LinearCleanTaskTitle(line.toks),
                                   priority |-> LinearExtractPriority(line.toks),
                                   estimate |-> LinearExtractEstimate(line.toks),
                                   labels |-> extractLabels(line.toks),
                                   subtasks |-> <<>>]))
             ELSE LinearNumberedScan(lines, i + 1, tasks)

parseTasksFromMarkdown(content) == LinearNumberedScan(content, 1, LinearBulletScan(content, 1, <<>>))

\* A header the regex /##?\s*(phase|sprint|cycle)\s*(\d+|[ivx]+)?/i matches
IsCycleHeader(line) == line.k = "h" /\ toLowerCase(line.kw) \in {"phase", "sprint", "cycle"}

\* doc.content.match(...)[0].replace(/^#+\s*/, ''), or 'Backlog'
LinearInferPhase(content) ==
    IF \E i \in 1..Len(content) : IsCycleHeader(content[i])
    THEN LET i == CHOOSE i \in 1..Len(content) :
                    IsCycleHeader(content[i]) /\ \A j \in 1..(i - 1) : ~IsCycleHeader(content[j])
         IN  content[i].kw \o content[i].ws \o content[i].num
    ELSE "Backlog"

RECURSIVE LinearExtractTaskBreakdowns(_)
LinearExtractTaskBreakdowns(docs) ==
    IF Len(docs) = 0 THEN <<>>
    ELSE LET tasks == parseTasksFromMarkdown(docs[1].content)
         IN  (IF Len(tasks) > 0
              THEN <<[phase |-> LinearInferPhase(docs[1].content), tasks |-> tasks]>>
              ELSE <<>>)
             \o LinearExtractTaskBreakdowns(Tail(docs))

\* ----------------------------------------------------------- release phases

Phase(name, startDate, endDate) == [name |-> name, startDate |-> startDate, endDate |-> endDate]

\* The text of a line from its first character that is not a blank, a colon or a
\* hyphen: what the last group of the phase regex captures when the match has run on
\* to that line.
LineText(line) ==
    CASE line.k = "h" -> SubSeq("######", 1, line.hashes) \o " " \o HeaderText(line)
      [] line.k = "n" -> "1. " \o JoinWith(line.toks, " ")
      [] OTHER -> JoinWith(line.toks, " ")

RECURSIVE RestOfMatch(_)
\* match[3] of a header with nothing left on its own line, and the number of lines the
\* match has run over: the \s of the class before the group matches line breaks, so
\* the group captures the next line that has text.
RestOfMatch(lines) ==
    IF Len(lines) = 0 THEN <<"", 0>>
    ELSE IF LineText(lines[1]) = ""
    THEN LET r == RestOfMatch(Tail(lines)) IN <<r[1], r[2] + 1>>
    ELSE <<LineText(lines[1]), 1>>

\* match[3]?.trim() || `${match[1]} ${match[2] || ''}`.trim()
PhaseName(h, rest) == IF trim(rest) # "" THEN trim(rest) ELSE trim(h.kw \o " " \o h.num)

PhaseOfHeader(h, rest) ==
    Phase(PhaseName(h, rest),
          IF Len(h.dates) >= 1 THEN h.dates[1] ELSE NoDate,
          IF Len(h.dates) >= 2 THEN h.dates[2] ELSE NoDate)

RECURSIVE HeaderPhases(_, _)
(* The while loop of phaseRegex.exec over a document: one phase per match, in order.
   A match starts at a header line whose keyword is in kws and ends with the line
   match[3] is taken from; the search goes on after it. *)
HeaderPhases(content, kws) ==
    IF Len(content) = 0 THEN <<>>
    ELSE LET h == content[1] IN
         IF h.k = "h" /\ toLowerCase(h.kw) \in kws
         THEN IF h.rest # ""
              THEN <<PhaseOfHeader(h, h.rest)>> \o HeaderPhases(Tail(content), kws)
              ELSE LET r == RestOfMatch(Tail(content))
                   IN  <<PhaseOfHeader(h, r[1])>>
                       \o HeaderPhases(SubSeq(content, 2 + r[2], Len(content)), kws)
         ELSE HeaderPhases(Tail(content), kws)

RECURSIVE DocsPhasesMerged(_, _)
\* A faulty variant of DocsPhases: a phase whose name an earlier document gave already
\* is left out.
DocsPhasesMerged(docs, kws) ==
    IF Len(docs) = 0 THEN <<>>
    ELSE LET before == DocsPhasesMerged(SubSeq(docs, 1, Len(docs) - 1), kws)
         IN  before \o SelectSeq(HeaderPhases(docs[Len(docs)].content, kws),
                                 LAMBDA p : \A j \in 1..Len(before) : before[j].name # p.name)

RECURSIVE DocsPhases(_, _)
\* for (const doc of documents) { while (match = phaseRegex.exec(doc.content)) .. }
DocsPhases(docs, kws) ==
    IF Len(docs) = 0 THEN <<>>
    ELSE HeaderPhases(docs[1].content, kws) \o DocsPhases(Tail(docs), kws)

\* The span of a default phase, and the default length of a cycle.
FourteenDays == 14

\* A faulty variant of JiraExtractReleasePhases: the second default phase starts a
\* day after the first has ended.
JiraExtractReleasePhasesGap(docs, now) ==
    LET phases == DocsPhases(docs, {"phase", "sprint", "cycle", "milestone", "release"})
    IN  IF Len(phases) = 0
        THEN <<Phase("Sprint 1 - Foundation", now, now + FourteenDays),
               Phase("Sprint 2 - Core Features", now + FourteenDays + 1, now + 2 * FourteenDays)>>
        ELSE phases

JiraExtractReleasePhases(docs, now) ==
    LET phases == DocsPhases(docs, {"phase", "sprint", "cycle", "milestone", "release"})
    IN  IF Len(phases) = 0
        THEN <<Phase("Sprint 1 - Foundation", now, now + FourteenDays),
               Phase("Sprint 2 - Core Features", now + FourteenDays, now + 2 * FourteenDays)>>
        ELSE phases

LinearExtractReleasePhases(docs, now) ==
    LET phases == DocsPhases(docs, {"phase", "sprint", "cycle", "milestone"})
    IN  IF Len(phases) = 0
        THEN <<Phase("Phase 1 - Foundation", now, now + FourteenDays),
               Phase("Phase 2 - Core Features", now + FourteenDays, now + 2 * FourteenDays)>>
        ELSE phases

\* --- GitHub

\* title.match(/^(overview|introduction|summary|description|acceptance|criteria)/i)
IsGenericHeader(title) ==
    \E g \in {"overview", "introduction", "summary", "description", "acceptance", "criteria"} :
        Len(title) >= Len(g) /\ SubSeq(toLowerCase(title), 1, Len(g)) = g

\* line.match(/priority[:\s]+(critical|high|medium|low)/i) on a line that starts
\* "Priority: <word>"; a header line never gets here.
IsPriorityLine(line) ==
    /\ line.k # "h" /\ Len(line.toks) >= 2
    /\ toLowerCase(line.toks[1]) \in {"priority:", "priority"}
    /\ toLowerCase(line.toks[2]) \in {"critical", "high", "medium", "low"}

GitHubTask(cur, category) ==
    [title |-> cur.title,
     priority |-> IF cur.priority # "" THEN cur.priority ELSE "medium",
     category |-> category]

RECURSIVE GitHubTaskScan(_, _, _, _, _)
\* GitHubExporter.parseTasksFromMarkdown: cur is currentTask (title "" for null).
GitHubTaskScan(lines, i, tasks, cur, category) ==
    IF i > Len(lines)
    THEN IF cur.title # "" THEN Append(tasks, GitHubTask(cur, category)) ELSE tasks
    ELSE LET line == lines[i] IN
         IF line.k = "h" /\ line.hashes \in 2..3 /\ Len(HeaderText(line)) > 0
         THEN LET saved == IF cur.title # "" THEN Append(tasks, GitHubTask(cur, category))
                           ELSE tasks
                  title == trim(HeaderText(line))
              IN  IF ~IsGenericHeader(title)
                  THEN GitHubTaskScan(lines, i + 1, saved, [title |-> title, priority |-> ""],
                                      category)
                  ELSE GitHubTaskScan(lines, i + 1, saved, cur, category)
         ELSE IF cur.title # "" /\ IsPriorityLine(line)
         THEN GitHubTaskScan(lines, i + 1, tasks,
                             [cur EXCEPT !.priority = toLowerCase(line.toks[2])], category)
         ELSE GitHubTaskScan(lines, i + 1, tasks, cur, category)

RECURSIVE GitHubExtractTasks(_)
GitHubExtractTasks(docs) ==
    IF Len(docs) = 0 THEN <<>>
    ELSE (IF \/ includes(toLowerCase(docs[1].name), "task")
             \/ includes(toLowerCase(docs[1].name), "user stor")
          THEN GitHubTaskScan(docs[1].content, 1, <<>>, [title |-> "", priority |-> ""],
                              docs[1].category)
          ELSE <<>>)
         \o GitHubExtractTasks(Tail(docs))

\* A header /^#{2,3}\s+(phase\s+\d+|sprint\s+\d+|milestone\s+\d+)/i matches
IsGitHubPhaseHeader(line) ==
    /\ line.k = "h" /\ line.hashes \in 2..3
    /\ toLowerCase(line.kw) \in {"phase", "sprint", "milestone"}
    /\ Len(line.ws) > 0 /\ DigitsLen(line.num) > 0

RECURSIVE parsePhasesFromMarkdown(_)
parsePhasesFromMarkdown(content) ==
    IF Len(content) = 0 THEN <<>>
    ELSE (IF IsGitHubPhaseHeader(content[1])
          THEN LET h == content[1]
               IN  <<Phase(trim(h.kw \o h.ws \o SubSeq(h.num, 1, DigitsLen(h.num))),
                           IF Len(h.dates) >= 1 THEN h.dates[1] ELSE NoDate,
                           IF Len(h.dates) >= 2 THEN h.dates[2] ELSE NoDate)>>
          ELSE <<>>)
         \o parsePhasesFromMarkdown(Tail(content))

RECURSIVE GitHubExtractPhases(_)
GitHubExtractPhases(docs) ==
    IF Len(docs) = 0 THEN <<>>
    ELSE (IF includes(toLowerCase(docs[1].name), "release")
          THEN parsePhasesFromMarkdown(docs[1].content) ELSE <<>>)
         \o GitHubExtractPhases(Tail(docs))

\* ------------------------------------------------------------------ inputs

Doc(name, content) == [name |-> name, category |-> "Generated", content |-> content]

\* One document holding a single top-level work item.
DocsOneItem ==
    <<Doc("user stories",
          <<Bullet(0, <<"[P0]", "Fix", "login", "bug", "[3pt]", "[bug]">>)>>)>>

\* Two documents, each with a phase header and work items.
DocsTwoPhases ==
    <<Doc("release tasks",
          <<Header(2, "Phase", " ", "1", "", "", <<110>>),
            Bullet(0, <<"Build", "login", "[feature]">>),
            Bullet(4, <<"Add", "unit", "test">>),
            Bullet(0, <<"[p1]", "Write", "docs">>)>>),
      Doc("sprint tasks",
          <<Header(2, "Sprint", " ", "2", ": ", "Beta", <<120, 134>>),
            Plain(<<"Priority:", "high">>),
            Numbered(<<"Ship", "beta">>)>>)>>

DocChoices == {DocsOneItem, DocsTwoPhases}

\* One document holding a work item with a child.
DocsItemWithChild ==
    <<Doc("user stories",
          <<Bullet(0, <<"[P0]", "Fix", "login", "bug", "[3pt]", "[bug]">>),
            Bullet(4, <<"Add", "unit", "test">>)>>)>>

\* CATEGORY_COMPONENTS (Object.values)
ComponentNames == <<"Features", "Bug Fixes", "Technical Debt", "Research", "Design",
                    "DevOps", "Security", "Testing">>

\* [...STANDARD_LABELS, ...CATEGORY_LABELS] of the Linear integration (names)
LinearLabelNames == <<"prd", "technical-spec", "architecture", "api-design", "security",
                      "infrastructure", "testing", "documentation",
                      "feature", "bug", "tech-debt", "research", "design", "devops">>

JiraOptionChoices ==
    {[createEpic |-> e, epicName |-> IF e THEN "Blueprint" ELSE "", createSprints |-> e,
      boardId |-> bd, createVersions |-> e, syncComponents |-> sc, addLabels |-> e,
      dryRun |-> d] :
        e \in BOOLEAN, bd \in {0}, sc \in {TRUE}, d \in BOOLEAN}

LinearOptionChoices ==
    {[syncLabels |-> TRUE, createProject |-> p, projectName |-> IF p THEN "Blueprint" ELSE "",
      createCycles |-> TRUE, dryRun |-> d] :
        p \in BOOLEAN, d \in BOOLEAN}

GitHubOptionChoices ==
    {[createLabels |-> TRUE, createMilestones |-> TRUE, createIssues |-> TRUE,
      createPRTemplates |-> TRUE, labelPrefix |-> lp, dryRun |-> d] :
        lp \in {"", "acme"}, d \in BOOLEAN}

OptionChoices(tgt) ==
    CASE tgt = "jira" -> JiraOptionChoices
      [] tgt = "linear" -> LinearOptionChoices
      [] OTHER -> GitHubOptionChoices

\* What the remote system holds and answers: the names of the components and of the
\* labels that exist already, and whether the project has a scrum board.
EnvChoices ==
    {[existing |-> Range(ComponentNames) \ {"Features", "Testing"},
      labels |-> Range(LinearLabelNames) \ {"feature", "devops"}, scrum |-> TRUE],
     [existing |-> Range(ComponentNames), labels |-> Range(LinearLabelNames), scrum |-> FALSE]}

\* The documents an exporter is run on.
ExportDocs == DocChoices \cup {DocsItemWithChild}

\* What each extraction method of the three exporters returns for each choice of
\* documents: the methods are pure, so a call of one in an action reads its value here.
JiraBreakdownsOf == [docs \in ExportDocs |-> JiraExtractTaskBreakdowns(docs)]
JiraPhasesOf == [docs \in ExportDocs |-> JiraExtractReleasePhases(docs, Today)]
LinearBreakdownsOf == [docs \in ExportDocs |-> LinearExtractTaskBreakdowns(docs)]
LinearPhasesOf == [docs \in ExportDocs |-> LinearExtractReleasePhases(docs, Today)]
GitHubTasksOf == [docs \in ExportDocs |-> GitHubExtractTasks(docs)]
GitHubPhasesOf == [docs \in ExportDocs |-> GitHubExtractPhases(docs)]

\* ------------------------------------------------------------------- state

VARIABLES
    target,     \* "jira" | "linear" | "github": the exporter instance
    documents,  \* the documents handed to export() / preview()
    options,    \* the options bag
    env,        \* what the remote system holds and answers
    call,       \* the method running: "none" | "export" | "preview"
    pc,         \* where the running method stands
    result,     \* the run's result accumulator
    loc,        \* the locals of the running method and of the client method it awaits
    calls,      \* the network calls of the run, in issue order, with their outcome
    fails,      \* the number of failed calls of the run
    runs,       \* the number of export()/preview() calls made on the instance
    previews,   \* the results the completed preview() calls returned
    other       \* a second method call on the instance, suspended at an await

vars == <<target, documents, options, env, call, pc, result, loc, calls, fails, runs, previews,
          other>>

\* What a step of the running method leaves alone: its inputs and the suspended call.
inputs == <<target, documents, options, env, other>>

NoRef == <<0, 0, 0>>

\* The fields of a create / link request that the exporters set.
NoReq == [name |-> "", parent |-> "", sprintId |-> 0, cycleId |-> "", projectId |-> "",
          priority |-> Undefined, labels |-> <<>>, estimate |-> NoNumber,
          startsAt |-> NoDate, endsAt |-> NoDate]

\* The identifier the remote system gives the next entity it creates.
NewId == 1 + Cardinality({k \in DOMAIN calls : calls[k].id # 0})

\* The outcomes of a network call: it succeeds, or it throws (the failed calls of the
\* running and of the suspended method call are counted together).
Outs == IF fails + other.fails < MaxFail THEN {"ok", "fail"} ELSE {"ok"}

\* JiraClient.createIssue POSTs the issue and then GETs it: the GET may throw
\* after the issue exists ("failAfter").
JiraIssueOuts == IF fails + other.fails < MaxFail THEN {"ok", "fail", "failAfter"} ELSE {"ok"}

\* A network call of the run: kind is the kind of entity it creates ("" for none).
Net(op, kind, ref, req, out) ==
    /\ calls' = Append(calls, [op |-> op, kind |-> kind, ref |-> ref, req |-> req, out |-> out,
                               id |-> IF kind # "" /\ out \in {"ok", "failAfter"} THEN NewId ELSE 0])
    /\ fails' = IF out = "ok" THEN fails ELSE fails + 1

NoIssue == [n |-> 0, key |-> "", summary |-> "", issuetype |-> "", priority |-> Undefined,
            parent |-> ""]

LocInit ==
    [i |-> 1, b |-> 1, s |-> 1, t |-> 1,
     phases |-> <<>>, taskBreakdowns |-> <<>>,
     acc |-> <<>>, stories |-> <<>>, tasks |-> <<>>,
     epicKey |-> Undefined, boardId |-> 0, sprintId |-> 0, cycleId |-> "",
     storyIssue |-> NoIssue, currentDate |-> NoDate, issueNum |-> 0]

JiraEmptyResult ==
    [epics |-> <<>>, stories |-> <<>>, tasks |-> <<>>, sprints |-> <<>>, versions |-> <<>>,
     components |-> <<>>, errors |-> <<>>]

NoProject == [n |-> 0, id |-> "", name |-> ""]

LinearEmptyResult ==
    [project |-> NoProject, cycles |-> <<>>, issues |-> <<>>, labels |-> <<>>, errors |-> <<>>]

GitHubEmptyResult ==
    [success |-> TRUE,
     created |-> [issues |-> 0, milestones |-> 0, labels |-> 0, prTemplates |-> 0],
     errors |-> <<>>, urls |-> <<>>]

\* A faulty variant of EmptyResult: a call made while an export() is under way goes
\* on with the accumulator of that export.
EmptyResultShared(tgt) ==
    IF call = "export" /\ pc \notin {"idle", "done"} THEN result
    ELSE CASE tgt = "jira" -> JiraEmptyResult
           [] tgt = "linear" -> LinearEmptyResult
           [] OTHER -> GitHubEmptyResult

\* const result = { ... }: the accumulator a method call starts with
EmptyResult(tgt) ==
    CASE tgt = "jira" -> JiraEmptyResult
      [] tgt = "linear" -> LinearEmptyResult
      [] OTHER -> GitHubEmptyResult

\* No method call is suspended.
NoRun == [call |-> "none", pc |-> "idle", result |-> <<>>, loc |-> LocInit, calls |-> <<>>,
          fails |-> 0]

\* A faulty variant of Abort: the error is thrown on to the caller, and the method
\* call never returns a result.
AbortRethrow(msg) ==
    /\ result' = result
    /\ pc' = "rejected"

\* catch (error) { result.errors.push(error.message) } around the whole run
Abort(msg) ==
    /\ result' = [result EXCEPT !.errors = Append(@, msg)]
    /\ pc' = "done"

Init ==
    /\ target \in {"jira", "linear", "github"}
    /\ documents \in DocChoices
    /\ options \in OptionChoices(target)
    /\ env \in EnvChoices
    /\ call = "none"
    /\ pc = "idle"
    /\ result = EmptyResult(target)
    /\ loc = LocInit
    /\ calls = <<>>
    /\ fails = 0
    /\ runs = 0
    /\ previews = <<>>
    /\ other = NoRun

\* ------------------------------------------------------------ entry points

\* A faulty variant of ExportEntry: a live run skips the connection verification.
ExportEntryNoVerify(tgt, opts) ==
    CASE tgt \in {"jira", "linear"} /\ opts.dryRun -> "preview"
      [] tgt = "jira" -> "components"
      [] OTHER -> "labels"

\* export(documents, options): a dry run of the Jira or Linear exporter returns preview()
ExportEntry(tgt, opts) == IF tgt \in {"jira", "linear"} /\ opts.dryRun THEN "preview" ELSE "verify"

Export ==
    /\ pc = "idle" /\ runs < MaxRuns
    /\ call' = "export"
    /\ runs' = runs + 1
    /\ result' = EmptyResult(target)
    /\ loc' = LocInit
    /\ calls' = <<>>
    /\ fails' = 0
    /\ pc' = ExportEntry(target, options)
    /\ UNCHANGED <<inputs, previews>>

Preview ==
    /\ pc = "idle" /\ runs < MaxRuns
    /\ call' = "preview"
    /\ runs' = runs + 1
    /\ result' = EmptyResult(target)
    /\ loc' = LocInit
    /\ calls' = <<>>
    /\ fails' = 0
    /\ pc' = "preview"
    /\ UNCHANGED <<inputs, previews>>

\* The method returns its result to the caller.
Return ==
    /\ pc = "done"
    /\ previews' = IF call = "preview" THEN Append(previews, result) ELSE previews
    /\ call' = "none"
    /\ pc' = "idle"
    /\ UNCHANGED <<inputs, result, loc, calls, fails, runs>>

\* ------------------------------------------------------------ Jira export

JiraKey(n) == "PROJ-" \o IntToStr(n)

\* The issue JiraClient.createIssue returns: the created issue, fetched back.
JiraIssue(n, req, type) ==
    [n |-> n, key |-> JiraKey(n), summary |-> req.name, issuetype |-> type,
     priority |-> req.priority, parent |-> req.parent]

\* A faulty variant of JiraAfterVerify: the run goes on after a failed verification.
JiraAfterVerifyContinue(out) == "components"

\* The stage that follows verify(): what a failed / successful verification leads to.
JiraAfterVerify(out) == IF out = "ok" THEN "components" ELSE "done"

JiraVerify ==
    /\ target = "jira" /\ pc = "verify"
    /\ \E out \in Outs :
        /\ Net("verify", "", NoRef, NoReq, out)
        /\ pc' = JiraAfterVerify(out)
        /\ result' = IF out = "ok" THEN result
                     ELSE [result EXCEPT !.errors = Append(@, "Jira API error: 401")]
    /\ UNCHANGED <<inputs, call, loc, runs, previews>>

\* if (options.syncComponents !== false): ensureComponents starts with getComponents()
JiraSyncComponents ==
    /\ target = "jira" /\ pc = "components"
    /\ IF options.syncComponents = FALSE
       THEN /\ pc' = "versions"
            /\ UNCHANGED <<result, loc, calls, fails>>
       ELSE \E out \in Outs :
            /\ Net("getComponents", "", NoRef, NoReq, out)
            /\ IF out = "ok"
               THEN /\ pc' = "ensureComponents"
                    /\ loc' = [loc EXCEPT !.i = 1, !.acc = <<>>]
                    /\ result' = result
               ELSE /\ Abort("Jira API error: getComponents")
                    /\ loc' = loc
    /\ UNCHANGED <<inputs, call, runs, previews>>

\* One turn of the loop of JiraClient.ensureComponents, and its return.
JiraEnsureComponent ==
    /\ target = "jira" /\ pc = "ensureComponents"
    /\ LET name   == ComponentNames[loc.i]
           last   == loc.i = Len(ComponentNames)
           found  == \E c \in env.existing : toLowerCase(c) = toLowerCase(name)
           Done(acc) == /\ loc' = [loc EXCEPT !.i = @ + 1, !.acc = acc]
                        /\ IF last
                           THEN pc' = "versions" /\ result' = [result EXCEPT !.components = acc]
                           ELSE pc' = pc /\ result' = result
       IN  IF found
           THEN /\ Done(Append(loc.acc, [n |-> 0, name |-> name]))
                /\ UNCHANGED <<calls, fails>>
           ELSE \E out \in Outs :
                /\ Net("createComponent", "component", <<loc.i, 0, 0>>,
                       [NoReq EXCEPT !.name = name], out)
                /\ IF out = "ok"
                   THEN Done(Append(loc.acc, [n |-> NewId, name |-> name]))
                   ELSE Abort("Jira API error: createComponent") /\ loc' = loc
    /\ UNCHANGED <<inputs, call, runs, previews>>

\* if (options.createVersions) { const phases = this.extractReleasePhases(documents) ...
JiraVersionsStage ==
    /\ target = "jira" /\ pc = "versions"
    /\ IF options.createVersions
       THEN /\ loc' = [loc EXCEPT !.phases = JiraPhasesOf[documents], !.i = 1]
            /\ pc' = "createVersion"
       ELSE /\ loc' = loc
            /\ pc' = "board"
    /\ UNCHANGED <<inputs, call, result, calls, fails, runs, previews>>

JiraCreateVersion ==
    /\ target = "jira" /\ pc = "createVersion"
    /\ LET phase == loc.phases[loc.i] IN
       \E out \in Outs :
        /\ Net("createVersion", "version", <<loc.i, 0, 0>>,
               [NoReq EXCEPT !.name = phase.name, !.endsAt = phase.endDate], out)
        /\ result' = IF out = "ok"
                     THEN [result EXCEPT !.versions =
                             Append(@, [n |-> NewId, name |-> phase.name,
                                        releaseDate |-> phase.endDate])]
                     ELSE [result EXCEPT !.errors =
                             Append(@, "Failed to create version \"" \o phase.name \o "\"")]
    /\ loc' = [loc EXCEPT !.i = @ + 1]
    /\ pc' = IF loc.i = Len(loc.phases) THEN "board" ELSE pc
    /\ UNCHANGED <<inputs, call, runs, previews>>

\* The scrum board getBoards() finds in the project.
ScrumBoardId == 7

\* let boardId = options.boardId; if (options.createSprints && !boardId) { getBoards() ... }
JiraGetBoard ==
    /\ target = "jira" /\ pc = "board"
    /\ IF options.createSprints /\ options.boardId = 0
       THEN \E out \in Outs :
            /\ Net("getBoards", "", NoRef, NoReq, out)
            /\ IF out = "ok"
               THEN /\ loc' = [loc EXCEPT !.boardId = IF env.scrum THEN ScrumBoardId ELSE 0]
                    /\ pc' = "sprints"
                    /\ result' = result
               ELSE /\ Abort("Jira API error: getBoards")
                    /\ loc' = loc
       ELSE /\ loc' = [loc EXCEPT !.boardId = options.boardId]
            /\ pc' = "sprints"
            /\ UNCHANGED <<result, calls, fails>>
    /\ UNCHANGED <<inputs, call, runs, previews>>

\* if (options.createSprints && boardId) { const phases = ... }
JiraSprintsStage ==
    /\ target = "jira" /\ pc = "sprints"
    /\ IF options.createSprints /\ loc.boardId # 0
       THEN /\ loc' = [loc EXCEPT !.phases = JiraPhasesOf[documents], !.i = 1]
            /\ pc' = "createSprint"
       ELSE /\ loc' = loc
            /\ pc' = "epic"
    /\ UNCHANGED <<inputs, call, result, calls, fails, runs, previews>>

JiraCreateSprint ==
    /\ target = "jira" /\ pc = "createSprint"
    /\ LET phase == loc.phases[loc.i] IN
       \E out \in Outs :
        /\ Net("createSprint", "sprint", <<loc.i, 0, 0>>,
               [NoReq EXCEPT !.name = phase.name, !.startsAt = phase.startDate,
                             !.endsAt = phase.endDate], out)
        /\ result' = IF out = "ok"
                     THEN [result EXCEPT !.sprints =
                             Append(@, [id |-> NewId, name |-> phase.name,
                                        startDate |-> phase.startDate,
                                        endDate |-> phase.endDate])]
                     ELSE [result EXCEPT !.errors =
                             Append(@, "Failed to create sprint \"" \o phase.name \o "\"")]
    /\ loc' = [loc EXCEPT !.i = @ + 1]
    /\ pc' = IF loc.i = Len(loc.phases) THEN "epic" ELSE pc
    /\ UNCHANGED <<inputs, call, runs, previews>>

\* const sprint = result.sprints[i]; ... sprintId: sprint?.id
JiraSprintFor(sprints, b) == IF b <= Len(sprints) THEN sprints[b].id ELSE 0

\* The locals at the start of turn b of the breakdown loop of export(), and of the
\* createIssuesFromBreakdown call it makes.
JiraEnterBreakdown(l, res, b) ==
    [l EXCEPT !.b = b, !.s = 1, !.t = 1, !.stories = <<>>, !.tasks = <<>>,
              !.sprintId = JiraSprintFor(res.sprints, b)]

\* if (options.createEpic && options.epicName) { createIssue(Epic) }, then
\* const taskBreakdowns = this.extractTaskBreakdowns(documents)
JiraCreateEpic ==
    /\ target = "jira" /\ pc = "epic"
    /\ LET bds == JiraBreakdownsOf[documents]
           Go(res, key) ==
               /\ result' = res
               /\ loc' = JiraEnterBreakdown([loc EXCEPT !.taskBreakdowns = bds, !.epicKey = key],
                                            res, 1)
               /\ pc' = IF Len(bds) = 0 THEN "done" ELSE "story"
       IN  IF options.createEpic /\ options.epicName # ""
           THEN \E out \in JiraIssueOuts :
                LET req == [NoReq EXCEPT !.name = options.epicName,
                                         !.labels = IF options.addLabels THEN <<"blueprint">>
                                                    ELSE <<>>]
                IN  /\ Net("createIssue", "epic", NoRef, req, out)
                    /\ IF out = "ok"
                       THEN Go([result EXCEPT !.epics = Append(@, JiraIssue(NewId, req, "Epic"))],
                               JiraKey(NewId))
                       ELSE Go([result EXCEPT !.errors = Append(@, "Failed to create epic")],
                               Undefined)
           ELSE /\ Go(result, Undefined)
                /\ UNCHANGED <<calls, fails>>
    /\ UNCHANGED <<inputs, call, runs, previews>>

\* The story loop of createIssuesFromBreakdown moves on: the next story, or the
\* return to export(), which pushes the stories and tasks and takes the next breakdown.
JiraNextStory(l, res) ==
    IF l.s < Len(l.taskBreakdowns[l.b].stories)
    THEN /\ loc' = [l EXCEPT !.s = @ + 1, !.t = 1, !.storyIssue = NoIssue]
         /\ result' = res
         /\ pc' = "story"
    ELSE LET res2 == [res EXCEPT !.stories = @ \o l.stories, !.tasks = @ \o l.tasks]
         IN  /\ result' = res2
             /\ loc' = JiraEnterBreakdown([l EXCEPT !.storyIssue = NoIssue], res2, l.b + 1)
             /\ pc' = IF l.b < Len(l.taskBreakdowns) THEN "story" ELSE "done"

\* stories.push(storyIssue); if (story.tasks) for (const task of story.tasks) ...
JiraStoryLinked(l, res) ==
    LET l2 == [l EXCEPT !.stories = Append(@, l.storyIssue)]
    IN  IF Len(l.taskBreakdowns[l.b].stories[l.s].tasks) > 0
        THEN /\ loc' = [l2 EXCEPT !.t = 1]
             /\ result' = res
             /\ pc' = "subtask"
        ELSE JiraNextStory(l2, res)

\* After the story exists: link to the epic, add to the sprint, then push it.
JiraAfterStoryCreated(l, res) ==
    IF l.epicKey # Undefined THEN loc' = l /\ result' = res /\ pc' = "linkToEpic"
    ELSE IF l.sprintId # 0 THEN loc' = l /\ result' = res /\ pc' = "addToSprint"
    ELSE JiraStoryLinked(l, res)

\* labels: options.addLabels ? [...STANDARD_LABELS.slice(0, 1), ...story.labels] : story.labels
JiraStoryRequest(story, addLabels) ==
    [NoReq EXCEPT !.name = story.summary, !.priority = story.priority,
                  !.labels = IF addLabels THEN <<"blueprint">> \o story.labels ELSE story.labels]

JiraCreateStory ==
    /\ target = "jira" /\ pc = "story"
    /\ LET story == loc.taskBreakdowns[loc.b].stories[loc.s]
           req   == JiraStoryRequest(story, options.addLabels)
       IN  \E out \in JiraIssueOuts :
            /\ Net("createIssue", "story", <<loc.b, loc.s, 0>>, req, out)
            /\ IF out = "ok"
               THEN JiraAfterStoryCreated([loc EXCEPT !.storyIssue = JiraIssue(NewId, req, "Story")],
                                          result)
               ELSE JiraNextStory(loc, result)
    /\ UNCHANGED <<inputs, call, runs, previews>>

\* JiraClient.linkToEpic: PUT the parent field; on failure try the Epic Link field.
JiraLinkToEpic ==
    /\ target = "jira" /\ pc = "linkToEpic"
    /\ \E out \in Outs :
        /\ Net("linkToEpic", "", <<loc.b, loc.s, 0>>,
               [NoReq EXCEPT !.name = loc.storyIssue.key, !.parent = loc.epicKey], out)
        /\ IF out = "ok"
           THEN IF loc.sprintId # 0
                THEN loc' = loc /\ result' = result /\ pc' = "addToSprint"
                ELSE JiraStoryLinked(loc, result)
           ELSE loc' = loc /\ result' = result /\ pc' = "linkToEpicClassic"
    /\ UNCHANGED <<inputs, call, runs, previews>>

\* A faulty variant of JiraLinkToEpicClassic: the PUT is repeated while it fails.
JiraLinkToEpicClassicRetry ==
    /\ target = "jira" /\ pc = "linkToEpicClassic"
    /\ \E out \in Outs :
        /\ Net("linkToEpicClassic", "", <<loc.b, loc.s, 0>>,
               [NoReq EXCEPT !.name = loc.storyIssue.key, !.parent = loc.epicKey], out)
        /\ IF out # "ok"
           THEN loc' = loc /\ result' = result /\ pc' = "linkToEpicClassic"
           ELSE IF loc.sprintId # 0
           THEN loc' = loc /\ result' = result /\ pc' = "addToSprint"
           ELSE JiraStoryLinked(loc, result)
    /\ UNCHANGED <<inputs, call, runs, previews>>

\* The second PUT of JiraClient.linkToEpic, of the Epic Link field; its failure is
\* swallowed.
JiraLinkToEpicClassic ==
    /\ target = "jira" /\ pc = "linkToEpicClassic"
    /\ \E out \in Outs :
        /\ Net("linkToEpicClassic", "", <<loc.b, loc.s, 0>>,
               [NoReq EXCEPT !.name = loc.storyIssue.key, !.parent = loc.epicKey], out)
        /\ IF loc.sprintId # 0
           THEN loc' = loc /\ result' = result /\ pc' = "addToSprint"
           ELSE JiraStoryLinked(loc, result)
    /\ UNCHANGED <<inputs, call, runs, previews>>

JiraAddToSprint ==
    /\ target = "jira" /\ pc = "addToSprint"
    /\ \E out \in Outs :
        /\ Net("addToSprint", "", <<loc.b, loc.s, 0>>,
               [NoReq EXCEPT !.name = loc.storyIssue.key, !.sprintId = loc.sprintId], out)
        /\ IF out = "ok"
           THEN JiraStoryLinked(loc, result)
           ELSE JiraNextStory(loc, result)
    /\ UNCHANGED <<inputs, call, runs, previews>>

\* A faulty variant of JiraSubtaskParent: the sub-task is put under the epic.
JiraSubtaskParentEpic(l) == l.epicKey

\* parentKey: storyIssue.key
JiraSubtaskParent(l) == l.storyIssue.key

JiraCreateSubtask ==
    /\ target = "jira" /\ pc = "subtask"
    /\ LET story == loc.taskBreakdowns[loc.b].stories[loc.s]
           task  == story.tasks[loc.t]
           req   == [NoReq EXCEPT !.name = task.summary, !.priority = task.priority,
                                  !.parent = JiraSubtaskParent(loc)]
       IN  \E out \in JiraIssueOuts :
            /\ Net("createIssue", "subtask", <<loc.b, loc.s, loc.t>>, req, out)
            /\ LET l2 == IF out = "ok"
                         THEN [loc EXCEPT !.tasks = Append(@, JiraIssue(NewId, req, "Sub-task"))]
                         ELSE loc
               IN  IF loc.t < Len(story.tasks)
                   THEN loc' = [l2 EXCEPT !.t = @ + 1] /\ result' = result /\ pc' = pc
                   ELSE JiraNextStory(l2, result)
    /\ UNCHANGED <<inputs, call, runs, previews>>

JiraExport ==
    \/ JiraVerify \/ JiraSyncComponents \/ JiraEnsureComponent
    \/ JiraVersionsStage \/ JiraCreateVersion \/ JiraGetBoard \/ JiraSprintsStage
    \/ JiraCreateSprint \/ JiraCreateEpic \/ JiraCreateStory \/ JiraLinkToEpic
    \/ JiraLinkToEpicClassic \/ JiraAddToSprint \/ JiraCreateSubtask

\* ----------------------------------------------------------- Jira preview

\* createPreviewIssue(key, summary, type)
createPreviewIssue(key, summary, type) ==
    [n |-> 0, key |-> key, summary |-> summary, issuetype |-> type, priority |-> Undefined,
     parent |-> ""]

PreviewKey(issueNum) == "PREVIEW-" \o IntToStr(issueNum)

\* A faulty variant of JiraPreviewTasks: the story's issueNum++ is missing, so the
\* first sub-task reuses the number of its story.
JiraPreviewTasksFromStory(tasks, issueNum) ==
    [t \in 1..Len(tasks) |->
        createPreviewIssue(PreviewKey(issueNum + t - 2), tasks[t].summary, "Sub-task")]

\* The sub-task loop of preview(): one preview issue per task, issueNum++ after each.
JiraPreviewTasks(tasks, issueNum) ==
    [t \in 1..Len(tasks) |->
        createPreviewIssue(PreviewKey(issueNum + t - 1), tasks[t].summary, "Sub-task")]

\* preview() up to the issue loops: components, versions, sprints, epic, issueNum = 1.
JiraPreviewContainers ==
    /\ target = "jira" /\ pc = "preview"
    /\ LET phases == JiraPhasesOf[documents]
           bds    == JiraBreakdownsOf[documents]
       IN  /\ result' =
                [result EXCEPT
                   !.components = IF options.syncComponents # FALSE
                                  THEN [i \in 1..Len(ComponentNames) |->
                                          [n |-> 0, name |-> ComponentNames[i]]]
                                  ELSE <<>>,
                   !.versions   = IF options.createVersions
                                  THEN [i \in 1..Len(phases) |->
                                          [n |-> 0, name |-> phases[i].name,
                                           releaseDate |-> phases[i].endDate]]
                                  ELSE <<>>,
                   !.sprints    = IF options.createSprints
                                  THEN [i \in 1..Len(phases) |->
                                          [id |-> i, name |-> phases[i].name,
                                           startDate |-> phases[i].startDate,
                                           endDate |-> phases[i].endDate]]
                                  ELSE <<>>,
                   !.epics      = IF options.createEpic /\ options.epicName # ""
                                  THEN <<createPreviewIssue("PREVIEW-0", options.epicName, "Epic")>>
                                  ELSE <<>>]
           /\ loc' = [loc EXCEPT !.taskBreakdowns = bds, !.issueNum = 1, !.b = 1, !.s = 1]
           /\ pc' = IF Len(bds) = 0 THEN "done" ELSE "previewStory"
    /\ UNCHANGED <<inputs, call, calls, fails, runs, previews>>

\* One turn of the story loop of preview(): the story, then its sub-tasks.
JiraPreviewStory ==
    /\ target = "jira" /\ pc = "previewStory"
    /\ LET stories == loc.taskBreakdowns[loc.b].stories
           story   == stories[loc.s]
           last    == loc.s = Len(stories)
       IN  /\ result' =
                [result EXCEPT
                   !.stories = Append(@, createPreviewIssue(PreviewKey(loc.issueNum),
                                                            story.summary, "Story")),
                   !.tasks   = @ \o JiraPreviewTasks(story.tasks, loc.issueNum + 1)]
           /\ loc' = [loc EXCEPT !.issueNum = @ + 1 + Len(story.tasks),
                                 !.s = IF last THEN 1 ELSE @ + 1,
                                 !.b = IF last THEN @ + 1 ELSE @]
           /\ pc' = IF last /\ loc.b = Len(loc.taskBreakdowns) THEN "done" ELSE pc
    /\ UNCHANGED <<inputs, call, calls, fails, runs, previews>>

JiraPreview == JiraPreviewContainers \/ JiraPreviewStory

\* ---------------------------------------------------------- Linear export

\* The stage that follows verify() in LinearExporter.export.
LinearAfterVerify(out) == IF out = "ok" THEN "labels" ELSE "done"

LinearVerify ==
    /\ target = "linear" /\ pc = "verify"
    /\ \E out \in Outs :
        /\ Net("verify", "", NoRef, NoReq, out)
        /\ pc' = LinearAfterVerify(out)
        /\ result' = IF out = "ok" THEN result
                     ELSE [result EXCEPT !.errors = Append(@, "Linear API error: 401")]
    /\ UNCHANGED <<inputs, call, loc, runs, previews>>

\* if (options.syncLabels !== false): ensureLabels starts with getLabels()
LinearSyncLabels ==
    /\ target = "linear" /\ pc = "labels"
    /\ IF options.syncLabels = FALSE
       THEN /\ pc' = "project"
            /\ UNCHANGED <<result, loc, calls, fails>>
       ELSE \E out \in Outs :
            /\ Net("getLabels", "", NoRef, NoReq, out)
            /\ IF out = "ok"
               THEN /\ pc' = "ensureLabels"
                    /\ loc' = [loc EXCEPT !.i = 1, !.acc = <<>>]
                    /\ result' = result
               ELSE /\ Abort("Linear API error: getLabels")
                    /\ loc' = loc
    /\ UNCHANGED <<inputs, call, runs, previews>>

\* One turn of the loop of LinearClient.ensureLabels, and its return.
LinearEnsureLabel ==
    /\ target = "linear" /\ pc = "ensureLabels"
    /\ LET name   == LinearLabelNames[loc.i]
           last   == loc.i = Len(LinearLabelNames)
           found  == \E l \in env.labels : toLowerCase(l) = toLowerCase(name)
           Done(acc) == /\ loc' = [loc EXCEPT !.i = @ + 1, !.acc = acc]
                        /\ IF last
                           THEN pc' = "project" /\ result' = [result EXCEPT !.labels = acc]
                           ELSE pc' = pc /\ result' = result
       IN  IF found
           THEN /\ Done(Append(loc.acc, [n |-> 0, id |-> "label-" \o name, name |-> name]))
                /\ UNCHANGED <<calls, fails>>
           ELSE \E out \in Outs :
                /\ Net("createLabel", "label", <<loc.i, 0, 0>>,
                       [NoReq EXCEPT !.name = name], out)
                /\ IF out = "ok"
                   THEN Done(Append(loc.acc, [n |-> NewId, id |-> "label-" \o IntToStr(NewId),
                                              name |-> name]))
                   ELSE Abort("Failed to create label") /\ loc' = loc
    /\ UNCHANGED <<inputs, call, runs, previews>>

\* if (options.createProject && options.projectName) { result.project = createProject() }
LinearCreateProject ==
    /\ target = "linear" /\ pc = "project"
    /\ IF options.createProject /\ options.projectName # ""
       THEN \E out \in Outs :
            /\ Net("createProject", "project", NoRef,
                   [NoReq EXCEPT !.name = options.projectName], out)
            /\ IF out = "ok"
               THEN /\ result' = [result EXCEPT !.project =
                                    [n |-> NewId, id |-> "project-" \o IntToStr(NewId),
                                     name |-> options.projectName]]
                    /\ pc' = "cycles"
               ELSE Abort("Failed to create project")
       ELSE /\ pc' = "cycles"
            /\ UNCHANGED <<result, calls, fails>>
    /\ UNCHANGED <<inputs, call, loc, runs, previews>>

\* labelMap.get(name.toLowerCase()) of the map buildLabelMap builds; "" when absent
LabelIdOf(labels, name) ==
    IF \E i \in 1..Len(labels) : toLowerCase(labels[i].name) = toLowerCase(name)
    THEN labels[CHOOSE i \in 1..Len(labels) :
                  /\ toLowerCase(labels[i].name) = toLowerCase(name)
                  /\ \A j \in (i + 1)..Len(labels) :
                        toLowerCase(labels[j].name) # toLowerCase(name)].id
    ELSE ""

\* .filter((v, i, a) => a.indexOf(v) === i)
Dedupe(seq) ==
    LET keep == {i \in 1..Len(seq) : \A j \in 1..(i - 1) : seq[j] # seq[i]}
        F[i \in 0..Len(seq)] ==
            IF i = 0 THEN <<>> ELSE IF i \in keep THEN Append(F[i - 1], seq[i]) ELSE F[i - 1]
    IN  F[Len(seq)]

IsId(id) == id # ""

\* The labelIds createIssuesFromBreakdown hands to createIssuesFromTasks.
LinearBreakdownLabelIds(breakdown, labels) ==
    LET names == Dedupe(FlatSeq([t \in 1..Len(breakdown.tasks) |-> breakdown.tasks[t].labels]))
    IN  SelectIdx([i \in 1..Len(names) |-> LabelIdOf(labels, names[i])], IsId, 1)

\* result.cycles.find(c => c.name?.toLowerCase().includes(breakdown.phase.toLowerCase()))?.id
LinearCycleFor(cycles, phase) ==
    IF \E i \in 1..Len(cycles) : includes(toLowerCase(cycles[i].name), toLowerCase(phase))
    THEN cycles[CHOOSE i \in 1..Len(cycles) :
                  /\ includes(toLowerCase(cycles[i].name), toLowerCase(phase))
                  /\ \A j \in 1..(i - 1) :
                        ~includes(toLowerCase(cycles[j].name), toLowerCase(phase))].id
    ELSE ""

\* A faulty variant of LinearStartBreakdowns: after a failed call the first document
\* is left out of the extraction.
LinearStartBreakdownsAfterFailure(l, res) ==
    LET bds == LinearExtractTaskBreakdowns(IF fails > 0 THEN Tail(documents) ELSE documents)
    IN  /\ loc' = [l EXCEPT !.taskBreakdowns = bds, !.b = 1, !.s = 1, !.t = 1, !.stories = <<>>]
        /\ result' = res
        /\ pc' = IF Len(bds) = 0 THEN "done" ELSE "backlogState"

\* const taskBreakdowns = this.extractTaskBreakdowns(documents), and the breakdown loop
\* of export() entered.
LinearStartBreakdowns(l, res) ==
    LET bds == LinearBreakdownsOf[documents]
    IN  /\ loc' = [l EXCEPT !.taskBreakdowns = bds, !.b = 1, !.s = 1, !.t = 1, !.stories = <<>>]
        /\ result' = res
        /\ pc' = IF Len(bds) = 0 THEN "done" ELSE "backlogState"

\* if (options.createCycles !== false) { createCyclesFromPhases(extractReleasePhases()) }
LinearCyclesStage ==
    /\ target = "linear" /\ pc = "cycles"
    /\ IF options.createCycles # FALSE
       THEN /\ loc' = [loc EXCEPT !.phases = LinearPhasesOf[documents],
                                  !.i = 1, !.acc = <<>>, !.currentDate = Today]
            /\ pc' = "createCycle"
            /\ result' = result
       ELSE LinearStartBreakdowns(loc, result)
    /\ UNCHANGED <<inputs, call, calls, fails, runs, previews>>

\* startsAt / endsAt of the cycle createCyclesFromPhases asks for
CycleStartsAt(phase, currentDate) == IF phase.startDate # NoDate THEN phase.startDate ELSE currentDate
CycleEndsAt(phase, startsAt) == IF phase.endDate # NoDate THEN phase.endDate ELSE startsAt + FourteenDays

\* One turn of the loop of createCyclesFromPhases: a failure is only console.warn-ed.
LinearCreateCycle ==
    /\ target = "linear" /\ pc = "createCycle"
    /\ LET phase    == loc.phases[loc.i]
           startsAt == CycleStartsAt(phase, loc.currentDate)
           endsAt   == CycleEndsAt(phase, startsAt)
       IN  \E out \in Outs :
            /\ Net("createCycle", "cycle", <<loc.i, 0, 0>>,
                   [NoReq EXCEPT !.name = phase.name, !.startsAt = startsAt, !.endsAt = endsAt],
                   out)
            /\ LET acc == IF out = "ok"
                          THEN Append(loc.acc, [n |-> NewId, id |-> "cycle-" \o IntToStr(NewId),
                                                number |-> NewId, name |-> phase.name,
                                                startsAt |-> startsAt, endsAt |-> endsAt])
                          ELSE loc.acc
                   l2  == [loc EXCEPT !.i = @ + 1, !.acc = acc,
                                      !.currentDate = IF out = "ok" THEN endsAt ELSE @]
               IN  IF loc.i = Len(loc.phases)
                   THEN LinearStartBreakdowns(l2, [result EXCEPT !.cycles = acc])
                   ELSE loc' = l2 /\ result' = result /\ pc' = pc
    /\ UNCHANGED <<inputs, call, runs, previews>>

\* createIssuesFromTasks begins: const backlogState = await this.getBacklogState()
LinearGetBacklogState ==
    /\ target = "linear" /\ pc = "backlogState"
    /\ \E out \in Outs :
        /\ Net("getBacklogState", "", <<loc.b, 0, 0>>, NoReq, out)
        /\ IF out = "ok"
           THEN /\ loc' = [loc EXCEPT !.s = 1, !.t = 1, !.stories = <<>>,
                              !.cycleId = LinearCycleFor(result.cycles,
                                                         loc.taskBreakdowns[loc.b].phase)]
                /\ result' = result
                /\ pc' = "issue"
           ELSE Abort("Linear API error: getWorkflowStates") /\ loc' = loc
    /\ UNCHANGED <<inputs, call, runs, previews>>

\* The issue LinearClient.createIssue returns.
LinearIssue(n, req) ==
    [n |-> n, id |-> "issue-" \o IntToStr(n), identifier |-> "TEAM-" \o IntToStr(n),
     title |-> req.name, priority |-> req.priority, estimate |-> req.estimate,
     labels |-> req.labels]

\* The task loop of createIssuesFromTasks moves on: the next task, or the return to
\* export(), which pushes the issues and takes the next breakdown.
LinearNextTask(l, res) ==
    IF l.s < Len(l.taskBreakdowns[l.b].tasks)
    THEN loc' = [l EXCEPT !.s = @ + 1, !.t = 1] /\ result' = res /\ pc' = "issue"
    ELSE /\ result' = [res EXCEPT !.issues = @ \o l.stories]
         /\ loc' = [l EXCEPT !.b = @ + 1, !.s = 1, !.t = 1, !.stories = <<>>]
         /\ pc' = IF l.b < Len(l.taskBreakdowns) THEN "backlogState" ELSE "done"

LinearCreateIssue ==
    /\ target = "linear" /\ pc = "issue"
    /\ LET breakdown == loc.taskBreakdowns[loc.b]
           task      == breakdown.tasks[loc.s]
       IN  \E out \in Outs,
              req \in {[NoReq EXCEPT !.name = task.title,
                                     !.priority = mapPriority(task.priority),
                                     !.estimate = task.estimate,
                                     !.labels = LinearBreakdownLabelIds(breakdown, result.labels),
                                     !.projectId = result.project.id,
                                     !.cycleId = loc.cycleId]} :
            /\ Net("createIssue", "issue", <<loc.b, loc.s, 0>>, req, out)
            /\ IF out = "ok"
               THEN LET issue == LinearIssue(NewId, req)
                        l2    == [loc EXCEPT !.stories = Append(@, issue), !.storyIssue = issue]
                    IN  IF Len(task.subtasks) > 0
                        THEN loc' = [l2 EXCEPT !.t = 1] /\ result' = result /\ pc' = "subIssue"
                        ELSE LinearNextTask(l2, result)
               ELSE Abort("Failed to create issue") /\ loc' = loc
    /\ UNCHANGED <<inputs, call, runs, previews>>

\* parentId: issue.id
LinearSubtaskParent(l) == l.storyIssue.id

LinearCreateSubIssue ==
    /\ target = "linear" /\ pc = "subIssue"
    /\ LET task    == loc.taskBreakdowns[loc.b].tasks[loc.s]
           subtask == task.subtasks[loc.t]
           req     == [NoReq EXCEPT !.name = subtask.title,
                                    !.priority = mapPriority(subtask.priority),
                                    !.estimate = subtask.estimate,
                                    !.projectId = result.project.id,
                                    !.cycleId = loc.cycleId,
                                    !.parent = LinearSubtaskParent(loc)]
       IN  \E out \in Outs :
            /\ Net("createIssue", "subtask", <<loc.b, loc.s, loc.t>>, req, out)
            /\ IF out = "ok"
               THEN LET l2 == [loc EXCEPT !.stories = Append(@, LinearIssue(NewId, req))]
                    IN  IF loc.t < Len(task.subtasks)
                        THEN loc' = [l2 EXCEPT !.t = @ + 1] /\ result' = result /\ pc' = pc
                        ELSE LinearNextTask(l2, result)
               ELSE Abort("Failed to create issue") /\ loc' = loc
    /\ UNCHANGED <<inputs, call, runs, previews>>

LinearExport ==
    \/ LinearVerify \/ LinearSyncLabels \/ LinearEnsureLabel \/ LinearCreateProject
    \/ LinearCyclesStage \/ LinearCreateCycle \/ LinearGetBacklogState
    \/ LinearCreateIssue \/ LinearCreateSubIssue

\* --------------------------------------------------------- Linear preview

\* The issue object preview() pushes for a task or a sub-task.
LinearPreviewIssue(issueNum, item, labels) ==
    [n |-> 0, id |-> "preview-issue-" \o IntToStr(issueNum), identifier |-> PreviewKey(issueNum),
     title |-> item.title, priority |-> mapPriority(item.priority), estimate |-> item.estimate,
     labels |-> [i \in 1..Len(labels) |-> "preview-label-" \o labels[i]]]

\* The sub-task loop of preview(): one issue per sub-task, issueNum++ after each.
LinearPreviewSubtasks(subtasks, issueNum) ==
    [t \in 1..Len(subtasks) |-> LinearPreviewIssue(issueNum + t - 1, subtasks[t], <<>>)]

\* preview() up to the issue loops: labels, project, cycles, issueNum = 1.
LinearPreviewContainers ==
    /\ target = "linear" /\ pc = "preview"
    /\ LET phases == LinearPhasesOf[documents]
           bds    == LinearBreakdownsOf[documents]
       IN  /\ result' =
                [result EXCEPT
                   !.labels  = IF options.syncLabels # FALSE
                               THEN [i \in 1..Len(LinearLabelNames) |->
                                       [n |-> 0, id |-> "preview-label-" \o IntToStr(i - 1),
                                        name |-> LinearLabelNames[i]]]
                               ELSE <<>>,
                   !.project = IF options.createProject /\ options.projectName # ""
                               THEN [n |-> 0, id |-> "preview-project",
                                     name |-> options.projectName]
                               ELSE NoProject,
                   !.cycles  = IF options.createCycles # FALSE
                               THEN [i \in 1..Len(phases) |->
                                       [n |-> 0, id |-> "preview-cycle-" \o IntToStr(i - 1),
                                        number |-> i, name |-> phases[i].name,
                                        startsAt |-> IF phases[i].startDate # NoDate
                                                     THEN phases[i].startDate ELSE Today,
                                        endsAt |-> IF phases[i].endDate # NoDate
                                                   THEN phases[i].endDate
                                                   ELSE Today + FourteenDays]]
                               ELSE <<>>]
           /\ loc' = [loc EXCEPT !.taskBreakdowns = bds, !.issueNum = 1, !.b = 1, !.s = 1]
           /\ pc' = IF Len(bds) = 0 THEN "done" ELSE "previewTask"
    /\ UNCHANGED <<inputs, call, calls, fails, runs, previews>>

\* One turn of the task loop of preview(): the task, then its sub-tasks.
LinearPreviewTask ==
    /\ target = "linear" /\ pc = "previewTask"
    /\ LET tasks == loc.taskBreakdowns[loc.b].tasks
           task  == tasks[loc.s]
           last  == loc.s = Len(tasks)
       IN  /\ result' =
                [result EXCEPT
                   !.issues = Append(@, LinearPreviewIssue(loc.issueNum, task, task.labels))
                              \o LinearPreviewSubtasks(task.subtasks, loc.issueNum + 1)]
           /\ loc' = [loc EXCEPT !.issueNum = @ + 1 + Len(task.subtasks),
                                 !.s = IF last THEN 1 ELSE @ + 1,
                                 !.b = IF last THEN @ + 1 ELSE @]
           /\ pc' = IF last /\ loc.b = Len(loc.taskBreakdowns) THEN "done" ELSE pc
    /\ UNCHANGED <<inputs, call, calls, fails, runs, previews>>

LinearPreview == LinearPreviewContainers \/ LinearPreviewTask

\* ---------------------------------------------------------- GitHub export

\* An octokit call succeeds, throws, or throws with status 422 ("conflict").
GitHubOuts == IF fails + other.fails < MaxFail THEN {"ok", "fail", "conflict"} ELSE {"ok"}

\* The names generatePRTemplates gives its templates.
PRTemplateNames == <<"default", "feature", "bugfix">>

\* The names of STANDARD_LABELS, CATEGORY_LABELS and PRIORITY_LABELS of the GitHub
\* integration that the exporter itself spells out.
GitHubLabelNames == <<"blueprint", "task">>

\* PRIORITY_LABELS[priority].name
PriorityLabelName(priority) == "priority:" \o priority

\* getAllLabels: the fixed labels, then the project label when labelPrefix is set
GitHubAllLabels(labelPrefix) ==
    GitHubLabelNames \o (IF labelPrefix # "" THEN <<labelPrefix>> ELSE <<>>)

\* The number of the milestone listMilestones finds under the title.
ExistingMilestone == 99

\* export() calls client.verify() before it looks at options.dryRun.
GitHubVerify ==
    /\ target = "github" /\ pc = "verify"
    /\ \E out \in Outs :
        /\ Net("verify", "", NoRef, NoReq, out)
        /\ IF out = "ok"
           THEN pc' = "labels" /\ result' = result
           ELSE /\ pc' = "done"
                /\ result' = [result EXCEPT !.success = FALSE,
                                            !.errors = Append(@, "GitHub connection failed")]
    /\ UNCHANGED <<inputs, call, loc, runs, previews>>

\* if (this.options.createLabels && !this.options.dryRun) { ensureLabels(getAllLabels()) }
GitHubLabelsStage ==
    /\ target = "github" /\ pc = "labels"
    /\ loc' = [loc EXCEPT !.i = 1, !.issueNum = 0]
    /\ pc' = IF options.createLabels /\ ~options.dryRun THEN "createLabel" ELSE "milestones"
    /\ UNCHANGED <<inputs, call, result, calls, fails, runs, previews>>

\* The label loop of GitHubClient.ensureLabels moves on; loc.issueNum counts "created".
GitHubNextLabel(created) ==
    /\ loc' = [loc EXCEPT !.i = @ + 1, !.issueNum = created]
    /\ IF loc.i = Len(GitHubAllLabels(options.labelPrefix))
       THEN pc' = "milestones" /\ result' = [result EXCEPT !.created.labels = created]
       ELSE pc' = "createLabel" /\ result' = result

GitHubCreateLabel ==
    /\ target = "github" /\ pc = "createLabel"
    /\ \E out \in GitHubOuts :
        /\ Net("createLabel", "label", <<loc.i, 0, 0>>,
               [NoReq EXCEPT !.name = GitHubAllLabels(options.labelPrefix)[loc.i]], out)
        /\ IF out = "conflict"
           THEN loc' = loc /\ result' = result /\ pc' = "updateLabel"
           ELSE GitHubNextLabel(IF out = "ok" THEN loc.issueNum + 1 ELSE loc.issueNum)
    /\ UNCHANGED <<inputs, call, runs, previews>>

\* status === 422: updateLabel, whose errors are ignored
GitHubUpdateLabel ==
    /\ target = "github" /\ pc = "updateLabel"
    /\ \E out \in Outs :
        /\ Net("updateLabel", "", <<loc.i, 0, 0>>,
               [NoReq EXCEPT !.name = GitHubAllLabels(options.labelPrefix)[loc.i]], out)
        /\ GitHubNextLabel(loc.issueNum)
    /\ UNCHANGED <<inputs, call, runs, previews>>

\* const tasks = this.extractTasks(documents); const phases = this.extractPhases(documents);
\* if (this.options.createMilestones && phases.length > 0 && !this.options.dryRun) ...
GitHubMilestonesStage ==
    /\ target = "github" /\ pc = "milestones"
    /\ LET phases == GitHubPhasesOf[documents] IN
        /\ loc' = [loc EXCEPT !.tasks = GitHubTasksOf[documents], !.phases = phases,
                              !.i = 1, !.acc = <<>>]
        /\ pc' = IF options.createMilestones /\ Len(phases) > 0 /\ ~options.dryRun
                 THEN "createMilestone" ELSE "issues"
    /\ UNCHANGED <<inputs, call, result, calls, fails, runs, previews>>

\* The phase loop of createMilestonesFromPhases moves on; loc.acc is "results".
GitHubNextMilestone(acc) ==
    /\ loc' = [loc EXCEPT !.i = @ + 1, !.acc = acc]
    /\ IF loc.i = Len(loc.phases)
       THEN pc' = "issues" /\ result' = [result EXCEPT !.created.milestones = Len(acc)]
       ELSE pc' = "createMilestone" /\ result' = result

GitHubCreateMilestone ==
    /\ target = "github" /\ pc = "createMilestone"
    /\ LET phase == loc.phases[loc.i] IN
       \E out \in GitHubOuts :
        /\ Net("createMilestone", "milestone", <<loc.i, 0, 0>>,
               [NoReq EXCEPT !.name = phase.name, !.endsAt = phase.endDate], out)
        /\ IF out = "conflict"
           THEN loc' = loc /\ result' = result /\ pc' = "findMilestone"
           ELSE GitHubNextMilestone(IF out = "ok"
                                    THEN Append(loc.acc, [number |-> NewId, title |-> phase.name])
                                    ELSE loc.acc)
    /\ UNCHANGED <<inputs, call, runs, previews>>

\* findMilestone: listMilestones, data.find(m => m.title === title)?.number || null
GitHubFindMilestone ==
    /\ target = "github" /\ pc = "findMilestone"
    /\ \E out \in Outs, found \in BOOLEAN :
        /\ Net("listMilestones", "", <<loc.i, 0, 0>>, NoReq, out)
        /\ GitHubNextMilestone(IF out = "ok" /\ found
                               THEN Append(loc.acc, [number |-> ExistingMilestone,
                                                     title |-> loc.phases[loc.i].name])
                               ELSE loc.acc)
    /\ UNCHANGED <<inputs, call, runs, previews>>

\* if (this.options.createIssues && tasks.length > 0 && !this.options.dryRun) ...
GitHubIssuesStage ==
    /\ target = "github" /\ pc = "issues"
    /\ loc' = [loc EXCEPT !.s = 1, !.stories = <<>>]
    /\ pc' = IF options.createIssues /\ Len(loc.tasks) > 0 /\ ~options.dryRun
             THEN "createIssue" ELSE "templates"
    /\ UNCHANGED <<inputs, call, result, calls, fails, runs, previews>>

\* The labels createIssuesFromTasks gives an issue; the issue carries no milestone.
GitHubIssueRequest(task, labelPrefix) ==
    [NoReq EXCEPT !.name = task.title, !.priority = task.priority,
                  !.labels = <<"blueprint", "task", PriorityLabelName(task.priority)>>
                             \o (IF labelPrefix # "" THEN <<labelPrefix \o ":task">> ELSE <<>>)]

\* One turn of the loop of createIssuesFromTasks: createIssue returns null on failure.
GitHubCreateIssue ==
    /\ target = "github" /\ pc = "createIssue"
    /\ LET task == loc.tasks[loc.s] IN
       \E out \in Outs :
        /\ Net("createIssue", "issue", <<1, loc.s, 0>>,
               GitHubIssueRequest(task, options.labelPrefix), out)
        /\ LET results == IF out = "ok"
                          THEN Append(loc.stories,
                                      [number |-> NewId, title |-> task.title,
                                       url |-> "https://github.com/o/r/issues/"
                                               \o IntToStr(NewId)])
                          ELSE loc.stories
           IN  /\ loc' = [loc EXCEPT !.s = @ + 1, !.stories = results]
               /\ IF loc.s = Len(loc.tasks)
                  THEN /\ pc' = "templates"
                       /\ result' = [result EXCEPT
                                       !.created.issues = Len(results),
                                       !.urls = [k \in 1..Len(results) |-> results[k].url]]
                  ELSE pc' = pc /\ result' = result
    /\ UNCHANGED <<inputs, call, runs, previews>>

\* result.success = result.errors.length === 0; return result
GitHubFinish(res) ==
    /\ result' = [res EXCEPT !.success = Len(res.errors) = 0]
    /\ pc' = "done"

\* if (this.options.createPRTemplates && !this.options.dryRun) { createPRTemplates() }
GitHubTemplatesStage ==
    /\ target = "github" /\ pc = "templates"
    /\ loc' = [loc EXCEPT !.i = 1, !.issueNum = 0]
    /\ IF options.createPRTemplates /\ ~options.dryRun
       THEN pc' = "getContent" /\ result' = result
       ELSE GitHubFinish(result)
    /\ UNCHANGED <<inputs, call, calls, fails, runs, previews>>

\* repos.getContent of the template's path: a failure means the file does not exist.
GitHubGetContent ==
    /\ target = "github" /\ pc = "getContent"
    /\ \E out \in Outs :
        /\ Net("getContent", "", <<loc.i, 0, 0>>,
               [NoReq EXCEPT !.name = PRTemplateNames[loc.i]], out)
    /\ pc' = "putContent"
    /\ UNCHANGED <<inputs, call, result, loc, runs, previews>>

\* repos.createOrUpdateFileContents; errors of a template are ignored.
GitHubPutContent ==
    /\ target = "github" /\ pc = "putContent"
    /\ \E out \in Outs :
        /\ Net("createOrUpdateFileContents", "file", <<loc.i, 0, 0>>,
               [NoReq EXCEPT !.name = PRTemplateNames[loc.i]], out)
        /\ LET created == IF out = "ok" THEN loc.issueNum + 1 ELSE loc.issueNum
           IN  /\ loc' = [loc EXCEPT !.i = @ + 1, !.issueNum = created]
               /\ IF loc.i = Len(PRTemplateNames)
                  THEN GitHubFinish([result EXCEPT !.created.prTemplates = created])
                  ELSE pc' = "getContent" /\ result' = result
    /\ UNCHANGED <<inputs, call, runs, previews>>

\* GitHubExporter.preview
GitHubPreview ==
    /\ target = "github" /\ pc = "preview"
    /\ result' = [labels |-> GitHubAllLabels(options.labelPrefix),
                  tasks |-> GitHubTasksOf[documents],
                  phases |-> GitHubPhasesOf[documents],
                  prTemplates |-> PRTemplateNames]
    /\ pc' = "done"
    /\ UNCHANGED <<inputs, call, loc, calls, fails, runs, previews>>

GitHubExport ==
    \/ GitHubVerify \/ GitHubLabelsStage \/ GitHubCreateLabel \/ GitHubUpdateLabel
    \/ GitHubMilestonesStage \/ GitHubCreateMilestone \/ GitHubFindMilestone
    \/ GitHubIssuesStage \/ GitHubCreateIssue \/ GitHubTemplatesStage
    \/ GitHubGetContent \/ GitHubPutContent

Next ==
    \/ Export \/ Preview \/ Return
    \/ JiraExport \/ JiraPreview
    \/ LinearExport \/ LinearPreview
    \/ GitHubExport \/ GitHubPreview

Spec == Init /\ [][Next]_vars

\* A step of the running method call: the function goes on when the call it awaits has
\* returned or thrown, and it returns when it has reached its return statement.
Step ==
    \/ JiraExport \/ JiraPreview \/ LinearExport \/ LinearPreview
    \/ GitHubExport \/ GitHubPreview \/ Return

\* Every network call terminates, so the running method call always goes on.
LiveSpec == Init /\ [][Next]_vars /\ WF_vars(Step)

\* ------------------------------------ two method calls on one exporter instance

\* The running method call, as it is kept while another one runs.
Running == [call |-> call, pc |-> pc, result |-> result, loc |-> loc, calls |-> calls,
            fails |-> fails]

\* The running method stands at an await: it is a live export (preview(), and the dry
\* run that returns preview(), hold no await) that has not finished.
AtAwait == call = "export" /\ ~options.dryRun /\ pc \notin {"idle", "done"}

\* A Jira or Linear exporter instance, one document holding a work item with a child,
\* live options, nothing called.
TwoRunInit ==
    /\ target \in {"jira", "linear"}
    /\ documents = DocsItemWithChild
    /\ options \in {o \in OptionChoices(target) :
                       ~o.dryRun /\ (target = "jira" => o.createEpic)
                       /\ (target = "linear" => ~o.createProject)}
    /\ env \in {e \in EnvChoices : e.scrum}
    /\ call = "none"
    /\ pc = "idle"
    /\ result = EmptyResult(target)
    /\ loc = LocInit
    /\ calls = <<>>
    /\ fails = 0
    /\ runs = 0
    /\ previews = <<>>
    /\ other = NoRun

\* While the running export() awaits a network call, the caller calls export() or
\* preview() again: the new call runs, with a result object of its own.
StartInterleaved ==
    /\ AtAwait /\ other = NoRun /\ runs < MaxRuns
    /\ other' = Running
    /\ \E method \in {"export", "preview"} :
          /\ call' = method
          /\ pc' = IF method = "export" THEN ExportEntry(target, options) ELSE "preview"
    /\ runs' = runs + 1
    /\ result' = EmptyResult(target)
    /\ loc' = LocInit
    /\ calls' = <<>>
    /\ fails' = 0
    /\ UNCHANGED <<target, documents, options, env, previews>>

\* At an await of the running call the suspended one goes on.
Switch ==
    /\ AtAwait /\ other # NoRun
    /\ other' = Running
    /\ call' = other.call /\ pc' = other.pc /\ result' = other.result /\ loc' = other.loc
    /\ calls' = other.calls /\ fails' = other.fails
    /\ UNCHANGED <<target, documents, options, env, runs, previews>>

\* The running call has returned: the suspended one goes on.
ResumeOther ==
    /\ pc = "idle" /\ other # NoRun
    /\ other' = NoRun
    /\ call' = other.call /\ pc' = other.pc /\ result' = other.result /\ loc' = other.loc
    /\ calls' = other.calls /\ fails' = other.fails
    /\ UNCHANGED <<target, documents, options, env, runs, previews>>

TwoRunNext ==
    \/ Export \/ Preview \/ Return
    \/ JiraExport \/ JiraPreview
    \/ LinearExport \/ LinearPreview
    \/ StartInterleaved \/ Switch \/ ResumeOther

TwoRunSpec == TwoRunInit /\ [][TwoRunNext]_vars

\* ------------------------------------------------- parsing, on bounded texts

\* Lines of a text handed to the parsers.
MaxLines == 2
\* Calls of the parsing functions made one after the other on one exporter instance.
MaxCalls == 3

\* The lines the texts are made of (U+1F680 is the rocket, U+00A1 the inverted
\* exclamation mark).
TextLines ==
    {Bullet(0, <<"[P0]", "Fix", "login", "bug", "[3pt]", "[bug]">>),
     Bullet(4, <<"Add", "unit", "test">>),
     Bullet(0, <<RED_CIRCLE, "Ship", "beta">>),
     Bullet(2, <<"[URGENT]", "Tune", "cache", "[2d]">>),
     Bullet(0, <<"[p1]", "ab">>),
     Bullet(0, <<"<u+d83d><u+de80>", "Launch", "site">>),
     Bullet(0, <<"<u+00a1>Hola", "mundo">>),
     Numbered(<<"Tune", "cache">>),
     Numbered(<<"[p1]", "Tune", "cache">>),
     Numbered(<<"[p1]", "ab">>),
     Header(2, "Phase", " ", "1", "", "", <<110>>),
     Header(3, "", "", "", "", "Build login", <<>>),
     Plain(<<"Priority:", "high">>)}

\* A text with bullets at several depths: an indented bullet before any top-level one,
\* a top-level bullet, bullets indented by 4 and by 8, and an indented bullet with a
\* title of 2 characters.
NestedText ==
    <<Bullet(4, <<"Lost", "child">>),
      Bullet(0, <<"Build", "login", "[feature]">>),
      Bullet(4, <<"Add", "unit", "test">>),
      Bullet(8, <<"Mock", "the", "server">>),
      Bullet(6, <<"[p2]", "ab">>)>>

\* Two documents with phase headers: a name that recurs in the second document, and a
\* header with nothing after its number that is followed by another header.
PhaseDocs ==
    <<[name |-> "release plan", category |-> "Generated",
       content |-> <<Header(2, "Phase", " ", "1", ": ", "Foundation", <<110, 124>>),
                     Bullet(0, <<"Build", "login", "[feature]">>),
                     Header(2, "Phase", " ", "2", "", "", <<>>),
                     Header(2, "Sprint", " ", "3", ": ", "Beta", <<>>)>>],
      [name |-> "sprint plan", category |-> "Generated",
       content |-> <<Header(2, "Sprint", " ", "1", ": ", "Foundation", <<>>),
                     Header(3, "Release", " ", "2", "", "", <<>>)>>]>>

\* A faulty variant of ParseItems: the stories array of the Jira parser lives on across
\* the calls made on the instance.
ParseItemsKeepingState(tgt, doc) ==
    CASE tgt = "jira" -> JiraNumberedScan(doc.content, 1,
                                          JiraBulletScan(doc.content, 1, result.items))
      [] tgt = "linear" -> parseTasksFromMarkdown(doc.content)
      [] OTHER -> GitHubTaskScan(doc.content, 1, <<>>, [title |-> "", priority |-> ""],
                                 doc.category)

\* The task parser of the exporter: JiraExporter.parseStoriesFromMarkdown,
\* LinearExporter.parseTasksFromMarkdown, GitHubExporter.parseTasksFromMarkdown.
ParseItems(tgt, doc) ==
    CASE tgt = "jira" -> parseStoriesFromMarkdown(doc.content)
      [] tgt = "linear" -> parseTasksFromMarkdown(doc.content)
      [] OTHER -> GitHubTaskScan(doc.content, 1, <<>>, [title |-> "", priority |-> ""],
                                 doc.category)

\* The phase extraction of the exporter at the time now.
ExtractReleasePhases(tgt, docs, now) ==
    CASE tgt = "jira" -> JiraExtractReleasePhases(docs, now)
      [] tgt = "linear" -> LinearExtractReleasePhases(docs, now)
      [] OTHER -> GitHubExtractPhases(docs)

\* An exporter instance and one document; nothing has been called.
ParseInit ==
    /\ target \in {"jira", "linear", "github"}
    /\ documents \in {<<Doc("release tasks", text)>> :
                        text \in UNION {[1..n -> TextLines] : n \in 0..MaxLines}
                                 \cup {NestedText}}
                      \cup {PhaseDocs}
    /\ options = CHOOSE o \in OptionChoices(target) : o.dryRun
    /\ env = CHOOSE e \in EnvChoices : e.scrum
    /\ call = "none"
    /\ pc = "idle"
    /\ result = [op |-> "none", items |-> <<>>, phases |-> <<>>, now |-> NoDate]
    /\ loc = LocInit
    /\ calls = <<>>
    /\ fails = 0
    /\ runs = 0
    /\ previews = <<>>
    /\ other = NoRun

\* One call of the task parser on the document; previews keeps what the earlier
\* calls on the instance returned.
ParseTasks ==
    /\ pc = "idle" /\ runs < MaxCalls
    /\ runs' = runs + 1
    /\ result' = [op |-> "parse", items |-> ParseItems(target, documents[1]), phases |-> <<>>,
                  now |-> NoDate]
    /\ previews' = IF result.op = "none" THEN previews ELSE Append(previews, result)
    /\ UNCHANGED <<inputs, call, pc, loc, calls, fails>>

\* One call of the phase extraction; the clock has advanced by a day per call.
ExtractPhases ==
    /\ pc = "idle" /\ runs < MaxCalls
    /\ runs' = runs + 1
    /\ result' = [op |-> "phases", items |-> <<>>,
                  phases |-> ExtractReleasePhases(target, documents, Today + runs),
                  now |-> Today + runs]
    /\ previews' = IF result.op = "none" THEN previews ELSE Append(previews, result)
    /\ UNCHANGED <<inputs, call, pc, loc, calls, fails>>

ParseNext == ParseTasks \/ ExtractPhases

ParseSpec == ParseInit /\ [][ParseNext]_vars

\* ---------------------------------------- parsing, on bullets with markers

\* Markers in front of the title of a bullet.
MaxMarkers == 2

\* The markers the bullets are made of: priority words in mixed letter case, estimates
\* in hours, days, weeks and points, labels inside and outside the vocabulary.
MarkerToks ==
    {"[P0]", "[urgent]", "[HIGHEST]", "[p1]", "[High]", "[P2]", "[medium]", "[p3]", "[LOW]",
     "[3h]", "[2d]", "[1w]", "[5pt]",
     "[bug]", "[BUG]", "[Tech-Debt]", "[chore]"}

\* An exporter instance and a document of one top-level bullet: up to MaxMarkers
\* markers, then the title "Ship beta".
BulletInit ==
    /\ target \in {"jira", "linear"}
    /\ documents \in {<<Doc("release tasks", <<Bullet(0, markers \o <<"Ship", "beta">>)>>)>> :
                        markers \in UNION {[1..n -> MarkerToks] : n \in 0..MaxMarkers}}
    /\ options = CHOOSE o \in OptionChoices(target) : o.dryRun
    /\ env = CHOOSE e \in EnvChoices : e.scrum
    /\ call = "none"
    /\ pc = "idle"
    /\ result = [op |-> "none", items |-> <<>>, phases |-> <<>>, now |-> NoDate]
    /\ loc = LocInit
    /\ calls = <<>>
    /\ fails = 0
    /\ runs = 0
    /\ previews = <<>>
    /\ other = NoRun

BulletSpec == BulletInit /\ [][ParseTasks]_vars

\* ------------------------------------------------------------- properties

Idx == 1..Len(calls)

\* The running (or just finished) call is a dry run / a live export.
DryRun == call = "preview" \/ (call = "export" /\ options.dryRun)
Live == call = "export" /\ ~options.dryRun

VerifiedOk == Len(calls) >= 1 /\ calls[1].op = "verify" /\ calls[1].out = "ok"

Failed(k) == calls[k].out # "ok"

ItemKinds == {"story", "issue"}
ContainerKinds == {"version", "sprint", "cycle", "milestone", "epic", "project"}
LinkOps == {"linkToEpic", "linkToEpicClassic", "addToSprint"}
\* The kinds of entity an export creates from the documents and the options.
EntityKinds == {"label", "component", "subtask"} \cup ContainerKinds \cup ItemKinds

\* The references <<breakdown, item, 0>> of the work items parsed from the documents.
ExpectedItemRefs ==
    CASE target = "jira" ->
           LET bds == JiraExtractTaskBreakdowns(documents)
           IN  UNION {{<<b, s, 0>> : s \in 1..Len(bds[b].stories)} : b \in 1..Len(bds)}
      [] target = "linear" ->
           LET bds == LinearExtractTaskBreakdowns(documents)
           IN  UNION {{<<b, s, 0>> : s \in 1..Len(bds[b].tasks)} : b \in 1..Len(bds)}
      [] OTHER -> {<<1, s, 0>> : s \in 1..Len(GitHubExtractTasks(documents))}

\* C1: in a finished live export run whose verification succeeded and in which exactly
\* one call failed, that call being a create call, a create call has been issued for
\* every work item parsed from the documents.
C1_ContinueOnError ==
    (/\ Live /\ pc = "done" /\ VerifiedOk
     /\ Cardinality({k \in Idx : Failed(k)}) = 1
     /\ \A k \in Idx : Failed(k) => calls[k].kind \in EntityKinds)
    => \A r \in ExpectedItemRefs :
          \E k \in Idx : calls[k].kind \in ItemKinds /\ calls[k].ref = r

\* C2: at the end of a live export run, ExportResult.errors holds at least one string
\* for each failed create or link call of the run.
C2_EveryFailureRecorded ==
    (Live /\ pc = "done")
    => Cardinality({k \in Idx : Failed(k) /\ (calls[k].kind \in EntityKinds \/ calls[k].op \in LinkOps)})
          <= Len(result.errors)

HasN(seq, id) == \E i \in 1..Len(seq) : seq[i].n = id

CreatedOfKind(kind) == Cardinality({k \in Idx : calls[k].kind = kind /\ calls[k].id # 0})

\* The entity the call created is in the result (GitHub reports counts and issue urls).
InResult(c) ==
    CASE target = "jira" ->
           CASE c.kind = "component" -> HasN(result.components, c.id)
             [] c.kind = "version" -> HasN(result.versions, c.id)
             [] c.kind = "sprint" -> \E i \in 1..Len(result.sprints) : result.sprints[i].id = c.id
             [] c.kind = "epic" -> HasN(result.epics, c.id)
             [] c.kind = "story" -> HasN(result.stories, c.id)
             [] OTHER -> HasN(result.tasks, c.id)
      [] target = "linear" ->
           CASE c.kind = "label" -> HasN(result.labels, c.id)
             [] c.kind = "project" -> result.project.n = c.id
             [] c.kind = "cycle" -> HasN(result.cycles, c.id)
             [] OTHER -> HasN(result.issues, c.id)
      [] OTHER ->
           CASE c.kind = "label" -> result.created.labels >= CreatedOfKind("label")
             [] c.kind = "milestone" -> result.created.milestones >= CreatedOfKind("milestone")
             [] c.kind = "issue" ->
                  \E i \in 1..Len(result.urls) :
                     result.urls[i] = "https://github.com/o/r/issues/" \o IntToStr(c.id)
             [] OTHER -> result.created.prTemplates >= CreatedOfKind("file")

\* C3: at the end of a live export run, every entity a call of the run created in the
\* target system is present in the returned result.
C3_CreatedAreReturned ==
    (Live /\ pc = "done") => \A k \in Idx : (calls[k].id # 0 /\ calls[k].kind \in EntityKinds) => InResult(calls[k])

\* No created entity is reported by the result.
NothingCreated(res) ==
    CASE target = "jira" ->
           /\ res.epics = <<>> /\ res.stories = <<>> /\ res.tasks = <<>>
           /\ res.sprints = <<>> /\ res.versions = <<>> /\ res.components = <<>>
      [] target = "linear" ->
           /\ res.project = NoProject /\ res.cycles = <<>> /\ res.issues = <<>>
           /\ res.labels = <<>>
      [] OTHER ->
           /\ res.created = [issues |-> 0, milestones |-> 0, labels |-> 0, prTemplates |-> 0]
           /\ res.urls = <<>>

\* C4: when the verification call of an export run fails, the run is over with that
\* call: it is the only call issued (so no create call), the result carries exactly
\* one error string and reports nothing created.
C4_VerificationFailureStops ==
    (Len(calls) >= 1 /\ calls[1].op = "verify" /\ Failed(1))
    => /\ pc \in {"done", "idle"}
       /\ Len(calls) = 1
       /\ Len(result.errors) = 1
       /\ NothingCreated(result)

C4_Witness ==
    /\ pc = "done" /\ call = "export"
    /\ Len(calls) = 1 /\ calls[1].op = "verify" /\ Failed(1)
    /\ Len(result.errors) = 1

\* C5: a dry run (preview(), or export() with dryRun set) issues no network call and
\* its result holds no error.
C5_DryRunNoNetwork ==
    DryRun => /\ calls = <<>>
              /\ (target = "github" /\ call = "preview") \/ result.errors = <<>>

\* The work items of the documents in parse order, each followed by its sub-tasks.
JiraParsedItems ==
    LET bds == JiraExtractTaskBreakdowns(documents)
    IN  FlatSeq([b \in 1..Len(bds) |->
          FlatSeq([s \in 1..Len(bds[b].stories) |->
            LET story == bds[b].stories[s]
            IN  <<[title |-> story.summary, kind |-> "Story"]>>
                \o [t \in 1..Len(story.tasks) |->
                      [title |-> story.tasks[t].summary, kind |-> "Sub-task"]]])])

LinearParsedItems ==
    LET bds == LinearExtractTaskBreakdowns(documents)
    IN  FlatSeq([b \in 1..Len(bds) |->
          FlatSeq([s \in 1..Len(bds[b].tasks) |->
            LET task == bds[b].tasks[s]
            IN  <<[title |-> task.title, kind |-> "Story"]>>
                \o [t \in 1..Len(task.subtasks) |->
                      [title |-> task.subtasks[t].title, kind |-> "Sub-task"]]])])

\* The identifiers of all the issue objects of a Jira / Linear preview result.
PreviewIssueKeys(res) ==
    IF target = "jira"
    THEN {res.epics[i].key : i \in 1..Len(res.epics)}
         \cup {res.stories[i].key : i \in 1..Len(res.stories)}
         \cup {res.tasks[i].key : i \in 1..Len(res.tasks)}
    ELSE {res.issues[i].identifier : i \in 1..Len(res.issues)}

PreviewIssueCount(res) ==
    IF target = "jira" THEN Len(res.epics) + Len(res.stories) + Len(res.tasks)
    ELSE Len(res.issues)

PreviewDone == target \in {"jira", "linear"} /\ DryRun /\ pc = "done"

EntityKey(n) == IF target = "jira" THEN JiraKey(n) ELSE "issue-" \o IntToStr(n)

\* C7: a sub-task create call comes after a successful create call of its parent item
\* and carries the identifier that call returned; and every container create call
\* (version, sprint, cycle, milestone, epic, project) precedes every item and sub-task
\* create call.
C7_ParentBeforeChild ==
    /\ \A k \in Idx :
         calls[k].kind = "subtask"
         => \E j \in 1..(k - 1) :
              /\ calls[j].kind \in ItemKinds
              /\ calls[j].ref = <<calls[k].ref[1], calls[k].ref[2], 0>>
              /\ calls[j].out = "ok"
              /\ calls[k].req.parent = EntityKey(calls[j].id)
    /\ \A j, k \in Idx :
         (calls[j].kind \in ContainerKinds /\ calls[k].kind \in ItemKinds \cup {"subtask"})
         => j < k

C7_Witness ==
    /\ pc = "done" /\ Live
    /\ \E k \in Idx : calls[k].kind = "subtask" /\ calls[k].out = "ok"
    /\ \E k \in Idx : calls[k].kind \in ItemKinds /\ Failed(k)
    /\ \E k \in Idx : calls[k].kind \in ContainerKinds

ItemOps == LinkOps \cup {"getBacklogState"}

\* The stage of the spec's state list a call belongs to: 1 Verifying, 2 SyncingLabels,
\* 3 CreatingContainers, 4 CreatingTopLevel, 5 CreatingItems, 6 CreatingChildren (and
\* 7 for GitHub's pull-request templates, which the list does not name).
StageOf(c) ==
    CASE c.op = "verify" -> 1
      [] c.kind \in {"label", "component"} \/ c.op \in {"getComponents", "getLabels", "updateLabel"}
           -> 2
      [] c.kind \in {"version", "sprint", "cycle", "milestone"}
         \/ c.op \in {"getBoards", "listMilestones"} -> 3
      [] c.kind \in {"epic", "project"} -> 4
      [] c.kind \in ItemKinds \/ c.op \in ItemOps -> 5
      [] c.kind = "subtask" -> 6
      [] OTHER -> 7

\* The same with containers and top-level container in one stage, and items and
\* sub-tasks in one stage.
GroupOf(c) ==
    CASE StageOf(c) \in {3, 4} -> 3
      [] StageOf(c) \in {5, 6} -> 5
      [] OTHER -> StageOf(c)

HasJiraItems(doc) == Len(parseStoriesFromMarkdown(doc.content)) > 0
HasLinearItems(doc) == Len(parseTasksFromMarkdown(doc.content)) > 0
DocsWithItems ==
    IF target = "jira" THEN SelectIdx(documents, HasJiraItems, 1)
    ELSE SelectIdx(documents, HasLinearItems, 1)

\* The phase name inferred from the document of breakdown b.
ItemPhase(b) == LinearInferPhase(DocsWithItems[b].content)

TimeBoxKinds == {"sprint", "cycle"}

\* The created time-boxed containers whose display name contains the phase name.
MatchingContainers(phase) ==
    {calls[m].id : m \in {n \in Idx : /\ calls[n].kind \in TimeBoxKinds /\ calls[n].id # 0
                                      /\ includes(toLowerCase(calls[n].req.name),
                                                  toLowerCase(phase))}}

\* The container the item of create call k is assigned to (0: none): the sprint of
\* its addToSprint call, the cycle its request names.
AssignedContainer(k) ==
    IF target = "jira"
    THEN IF \E m \in Idx : calls[m].op = "addToSprint" /\ calls[m].ref = calls[k].ref
         THEN (CHOOSE c \in {calls[m] : m \in Idx} :
                  c.op = "addToSprint" /\ c.ref = calls[k].ref).req.sprintId
         ELSE 0
    ELSE IF \E m \in Idx : /\ calls[m].kind = "cycle" /\ calls[m].id # 0
                           /\ "cycle-" \o IntToStr(calls[m].id) = calls[k].req.cycleId
         THEN (CHOOSE c \in {calls[m] : m \in Idx} :
                  /\ c.kind = "cycle" /\ c.id # 0
                  /\ "cycle-" \o IntToStr(c.id) = calls[k].req.cycleId).id
         ELSE 0

\* C9: in a finished live Jira / Linear export, each created item is assigned to a
\* created sprint / cycle whose name contains, case-insensitively, the phase name
\* inferred from the item's document, and to no container when none matches.
C9_ContainerByPhaseName ==
    (Live /\ pc = "done" /\ target \in {"jira", "linear"})
    => \A k \in Idx :
         (calls[k].kind \in ItemKinds /\ calls[k].out = "ok")
         => LET matching == MatchingContainers(ItemPhase(calls[k].ref[1]))
            IN  IF matching = {} THEN AssignedContainer(k) = 0
                ELSE AssignedContainer(k) \in matching

\* What C10 compares of a Jira / Linear result: the containers with names and dates,
\* the top-level container, the items and sub-tasks with titles and priorities.
EntitiesOf(res) ==
    IF target = "jira"
    THEN [containers |-> [i \in 1..Len(res.sprints) |->
                            <<res.sprints[i].name, res.sprints[i].startDate,
                              res.sprints[i].endDate>>]
                         \o [i \in 1..Len(res.versions) |->
                               <<res.versions[i].name, NoDate, res.versions[i].releaseDate>>],
          top        |-> [i \in 1..Len(res.epics) |-> res.epics[i].summary],
          items      |-> [i \in 1..Len(res.stories) |->
                            <<res.stories[i].summary, res.stories[i].priority>>]
                         \o [i \in 1..Len(res.tasks) |->
                               <<res.tasks[i].summary, res.tasks[i].priority>>]]
    ELSE [containers |-> [i \in 1..Len(res.cycles) |->
                            <<res.cycles[i].name, res.cycles[i].startsAt, res.cycles[i].endsAt>>],
          top        |-> <<res.project.name>>,
          items      |-> [i \in 1..Len(res.issues) |->
                            <<res.issues[i].title, res.issues[i].priority>>]]

\* C10: a finished live Jira / Linear export all of whose calls succeeded returns the
\* entities an earlier preview() of the same documents and options returned.
C10_PreviewMatchesExport ==
    (/\ Live /\ pc = "done" /\ target \in {"jira", "linear"}
     /\ \A k \in Idx : ~Failed(k)
     /\ Len(previews) >= 1)
    => EntitiesOf(result) = EntitiesOf(previews[1])

\* ---------------------------------------------------- properties of parsing

\* The work items and the phases the running method has extracted from the documents
\* (GitHub: the tasks; its preview() returns them as its result).
ExtractedItems ==
    IF target = "github"
    THEN (IF call = "preview" /\ pc = "done" THEN result.tasks ELSE loc.tasks)
    ELSE loc.taskBreakdowns

ExtractedPhases ==
    IF target = "github" /\ call = "preview" /\ pc = "done" THEN result.phases ELSE loc.phases

\* What the extraction functions of each exporter give for each choice of documents.
ExtractionOf ==
    [tgt \in {"jira", "linear", "github"} |->
        [docs \in DocChoices |->
            [items  |-> CASE tgt = "jira" -> JiraExtractTaskBreakdowns(docs)
                          [] tgt = "linear" -> LinearExtractTaskBreakdowns(docs)
                          [] OTHER -> GitHubExtractTasks(docs),
             phases |-> ExtractReleasePhases(tgt, docs, Today)]]]

ItemsOfDocuments == ExtractionOf[target][documents].items

ParsedText == documents[1].content

ItemTitle(item) == IF target = "jira" THEN item.summary ELSE item.title

\* A priority, estimate or label marker the parser of the target recognizes.
IsMarkerTok(tok) ==
    \/ IsPTok(tok) \/ IsLabelTok(tok)
    \/ target = "jira" /\ (\/ IsStoryPointTok(tok)
                           \/ toLowerCase(Inside(tok)) \in {"urgent", "highest", "high", "medium",
                                                            "low", "lowest"})
    \/ target = "linear" /\ (\/ IsEstimateTok(tok)
                             \/ toLowerCase(Inside(tok)) \in {"urgent", "high", "medium", "low"})

RECURSIVE WithoutCircles(_)
\* s with every priority emoji (a whole circle character) removed
WithoutCircles(s) ==
    IF Len(s) = 0 THEN ""
    ELSE IF Len(s) >= 16 /\ SubSeq(s, 1, 16) \in {RED_CIRCLE, ORANGE_CIRCLE, YELLOW_CIRCLE,
                                                 GREEN_CIRCLE}
    THEN WithoutCircles(SubSeq(s, 17, Len(s)))
    ELSE IF Len(s) >= 8 /\ SubSeq(s, 1, 3) = "<u+" /\ SubSeq(s, 8, 8) = ">"
    THEN SubSeq(s, 1, 8) \o WithoutCircles(SubSeq(s, 9, Len(s)))
    ELSE SubSeq(s, 1, 1) \o WithoutCircles(SubSeq(s, 2, Len(s)))

\* The bullet text without its markers and priority emoji, trimmed.
TitleOfBullet(toks) ==
    trim(JoinWith([i \in 1..Len(toks) |->
                     IF IsMarkerTok(toks[i]) THEN "" ELSE WithoutCircles(toks[i])], " "))

RECURSIVE TopLevelTitles(_)
\* The titles of the top-level bullets of a text that are longer than 3, in order.
TopLevelTitles(lines) ==
    IF Len(lines) = 0 THEN <<>>
    ELSE (IF /\ lines[1].k = "b" /\ lines[1].indent < 4
             /\ JsLength(TitleOfBullet(lines[1].toks)) > 3
          THEN <<TitleOfBullet(lines[1].toks)>> ELSE <<>>)
         \o TopLevelTitles(Tail(lines))

NumberedLines(lines) == {i \in 1..Len(lines) : lines[i].k = "n"}

\* C12: the Jira / Linear task parser returns one work item per top-level bullet whose
\* title is longer than 3 characters, in the order of the bullets and before the items
\* of the numbered lines, and the item's title is the bullet text with every recognized
\* marker and every priority emoji removed and the surrounding whitespace trimmed.
C12_OneItemPerBullet ==
    (result.op = "parse" /\ target \in {"jira", "linear"})
    => LET titles == TopLevelTitles(ParsedText)
       IN  /\ Len(result.items) >= Len(titles)
           /\ Len(result.items) - Len(titles) <= Cardinality(NumberedLines(ParsedText))
           /\ \A i \in 1..Len(titles) : ItemTitle(result.items[i]) = titles[i]

\* The bullet carries [p0], [urgent] (in any letter case) or the red circle.
TaggedHighest(toks) ==
    HasMarker(toks, "[p0]") \/ HasMarker(toks, "[urgent]") \/ HasMarker(toks, RED_CIRCLE)

\* The highest priority tier of the target.
HighestTier == CASE target = "jira" -> "Highest"
                 [] target = "linear" -> "urgent"
                 [] OTHER -> "critical"

\* cleanTaskTitle of the Jira / Linear exporter
CleanTitle(toks) == IF target = "jira" THEN JiraCleanTaskTitle(toks)
                    ELSE LinearCleanTaskTitle(toks)

\* The bullet at line i of a text is top-level, resp. a child, and its title is kept.
OpensItem(lines, i) ==
    lines[i].k = "b" /\ lines[i].indent < 4 /\ JsLength(CleanTitle(lines[i].toks)) > 3

IsChildBullet(lines, i) ==
    lines[i].k = "b" /\ lines[i].indent >= 4 /\ JsLength(CleanTitle(lines[i].toks)) > 3

\* The top-level bullets of a text the Jira / Linear parser turns into items, in order.
ItemBullets(lines) ==
    LET at == SelectSeq([i \in 1..Len(lines) |-> i], LAMBDA i : OpensItem(lines, i))
    IN  [j \in 1..Len(at) |-> lines[at[j]]]

\* C13: the item of a bullet that carries [p0], [urgent] or the red circle has the
\* highest priority tier of the target (Linear: "urgent", which mapPriority sends to 1);
\* for GitHub, whose items come from headers, a text with such a bullet yields an item
\* of the highest tier.
C13_TaggedGetsHighest ==
    result.op = "parse"
    => IF target = "github"
       THEN (\E i \in 1..Len(ParsedText) :
                ParsedText[i].k = "b" /\ TaggedHighest(ParsedText[i].toks))
            => \E j \in 1..Len(result.items) : result.items[j].priority = HighestTier
       ELSE LET bullets == ItemBullets(ParsedText)
            IN  \A i \in 1..Len(bullets) :
                   TaggedHighest(bullets[i].toks)
                   => /\ result.items[i].priority = HighestTier
                      /\ target = "linear" => mapPriority(result.items[i].priority) = 1

ItemChildren(item) == IF target = "jira" THEN item.tasks ELSE item.subtasks

ItemEstimate(item) == IF target = "jira" THEN item.storyPoints ELSE item.estimate

\* The top-level bullets among the first i lines that open an item.
ItemsUpTo(lines, i) == Cardinality({j \in 1..i : OpensItem(lines, j)})

\* Line i is a top-level bullet and line i + 1 a bullet indented by at least 4.
BulletThenIndented(lines, i) ==
    /\ i + 1 <= Len(lines)
    /\ lines[i].k = "b" /\ lines[i].indent < 4
    /\ lines[i + 1].k = "b" /\ lines[i + 1].indent >= 4

ExampleText ==
    <<Bullet(0, <<"[P0]", "Fix", "login", "bug", "[3pt]", "[bug]">>),
      Bullet(4, <<"Add", "unit", "test">>)>>

NoPhaseHeader ==
    \A d \in 1..Len(documents) : \A i \in 1..Len(documents[d].content) :
        ~(/\ documents[d].content[i].k = "h"
          /\ toLowerCase(documents[d].content[i].kw)
               \in {"phase", "sprint", "cycle", "milestone", "release"})

\* C15: for every target, when no phase header is found in the documents, phase
\* extraction returns exactly two phases, a foundation phase and a core-features phase.
C15_TwoDefaultPhases ==
    (result.op = "phases" /\ NoPhaseHeader)
    => /\ Len(result.phases) = 2
       /\ includes(result.phases[1].name, "Foundation")
       /\ includes(result.phases[2].name, "Core Features")

\* C16: the two default phases of the Jira and the Linear exporter each start strictly
\* before they end and span 14 days, and they are contiguous: the first runs from now
\* to now + 14 days, the second from there to now + 28 days.
C16_DefaultPhaseDates ==
    (result.op = "phases" /\ target \in {"jira", "linear"} /\ NoPhaseHeader)
    => LET first  == result.phases[1]
           second == result.phases[2]
       IN  /\ Len(result.phases) = 2
           /\ first.startDate < first.endDate /\ second.startDate < second.endDate
           /\ first.endDate - first.startDate = 14
           /\ second.endDate - second.startDate = 14
           /\ first.startDate = result.now
           /\ second.startDate = first.endDate
           /\ second.endDate = result.now + 28

\* Default phases have been extracted twice, the second time a day later.
C16_Witness ==
    /\ result.op = "phases" /\ target \in {"jira", "linear"} /\ NoPhaseHeader
    /\ result.now = Today + 1
    /\ Len(previews) = 1 /\ previews[1].op = "phases"
    /\ result.phases[1].startDate = previews[1].phases[1].startDate + 1

C19_ParseIsTotal ==
    (result.op = "parse" /\ target \in {"jira", "linear"})
    => /\ DOMAIN result.items = 1..Len(result.items)
       /\ (\A i \in 1..Len(ParsedText) : ParsedText[i].k \notin {"b", "n"})
          => result.items = <<>>

\* A text of headers and plain lines only has been parsed.
C19_Witness ==
    /\ result.op = "parse" /\ target \in {"jira", "linear"}
    /\ Len(ParsedText) = MaxLines
    /\ \A i \in 1..Len(ParsedText) : ParsedText[i].k \notin {"b", "n"}
    /\ \E i \in 1..Len(ParsedText) : ParsedText[i].k = "t"
    /\ result.items = <<>>

\* -------------------------------------------------- properties of the calls

\* The entity or link a call is about.
Subject(c) ==
    CASE c.kind # "" -> <<c.kind, c.ref>>
      [] c.op \in {"linkToEpic", "linkToEpicClassic"} -> <<"epicLink", c.ref>>
      [] c.op = "addToSprint" -> <<"sprintLink", c.ref>>
      [] c.op = "updateLabel" -> <<"label", c.ref>>
      [] c.op = "listMilestones" -> <<"milestone", c.ref>>
      [] c.op = "getContent" -> <<"file", c.ref>>
      [] OTHER -> <<c.op, c.ref>>

\* C20 (as claimed): in an export run the create call of an entity is issued at most
\* once, and after a failed call no further call about the same entity or link is issued.
C20_NothingRetried ==
    Live => \A j, k \in Idx :
               (j < k /\ Subject(calls[j]) = Subject(calls[k]))
               => /\ ~Failed(j)
                  /\ ~(calls[j].kind # "" /\ calls[k].kind # "")

\* The call a client method issues after a call of its own has failed: <<failed
\* operation, outcome, following operation>>.
Fallbacks ==
    {<<"linkToEpic", "fail", "linkToEpicClassic">>,
     <<"createLabel", "conflict", "updateLabel">>,
     <<"createMilestone", "conflict", "listMilestones">>,
     <<"getContent", "fail", "createOrUpdateFileContents">>}

\* C20: in an export run no call is issued twice (so an entity's create call is issued
\* at most once), and the only call about the same entity or link that follows a
\* failed call is the one fallback of the client method, issued right after it: the
\* Epic Link PUT after a failed parent PUT, updateLabel after createLabel answered
\* 422, listMilestones after createMilestone answered 422, and the file write after a
\* failed getContent.
C20_OnlyFallbacks ==
    Live => \A j, k \in Idx :
               j < k
               => /\ ~(/\ calls[j].op = calls[k].op /\ calls[j].kind = calls[k].kind
                       /\ calls[j].ref = calls[k].ref)
                  /\ (Failed(j) /\ Subject(calls[j]) = Subject(calls[k]))
                     => /\ k = j + 1
                        /\ <<calls[j].op, calls[j].out, calls[k].op>> \in Fallbacks

\* A finished run in which a parent PUT failed, its fallback was issued and failed,
\* and the run went on to other entities.
C20_Witness ==
    /\ Live /\ pc = "done"
    /\ \E j \in Idx :
          /\ j + 2 <= Len(calls)
          /\ calls[j].op = "linkToEpic" /\ Failed(j)
          /\ calls[j + 1].op = "linkToEpicClassic" /\ Failed(j + 1)
          /\ Subject(calls[j + 2]) # Subject(calls[j])

\* ------------------------------------------ properties of two calls on an instance

\* The entities of a kind the calls of a log created, and the calls of it that failed.
OkCreates(cs, kind) == Cardinality({k \in 1..Len(cs) : cs[k].kind = kind /\ cs[k].id # 0})

FailedCalls(cs) == Cardinality({k \in 1..Len(cs) : cs[k].out # "ok"})

\* n is the identifier of an entity of the kinds that a call of the log created.
CreatedBy(cs, kinds, n) == \E k \in 1..Len(cs) : cs[k].kind \in kinds /\ cs[k].id = n

\* The result of an export holds only entities that the calls of the log created, and
\* no more errors than calls of the log failed.
OwnOnly(res, cs) ==
    /\ Len(res.errors) <= FailedCalls(cs)
    /\ IF target = "jira"
       THEN /\ Len(res.versions) <= OkCreates(cs, "version")
            /\ Len(res.sprints) <= OkCreates(cs, "sprint")
            /\ Len(res.epics) <= OkCreates(cs, "epic")
            /\ Len(res.stories) <= OkCreates(cs, "story")
            /\ Len(res.tasks) <= OkCreates(cs, "subtask")
            /\ \A i \in 1..Len(res.epics) : CreatedBy(cs, {"epic"}, res.epics[i].n)
            /\ \A i \in 1..Len(res.stories) : CreatedBy(cs, {"story"}, res.stories[i].n)
            /\ \A i \in 1..Len(res.tasks) : CreatedBy(cs, {"subtask"}, res.tasks[i].n)
       ELSE /\ Len(res.cycles) <= OkCreates(cs, "cycle")
            /\ Len(res.issues) <= OkCreates(cs, "issue") + OkCreates(cs, "subtask")
            /\ res.project # NoProject => CreatedBy(cs, {"project"}, res.project.n)
            /\ \A i \in 1..Len(res.cycles) : CreatedBy(cs, {"cycle"}, res.cycles[i].n)
            /\ \A i \in 1..Len(res.issues) :
                  CreatedBy(cs, {"issue", "subtask"}, res.issues[i].n)

\* The identifiers of a preview result start at 1 (the Jira epic has 0) and run on
\* without a gap.
PreviewFromOne(res) ==
    /\ res.errors = <<>>
    /\ PreviewIssueKeys(res) \ {PreviewKey(0)}
         = {PreviewKey(i) : i \in 1..(PreviewIssueCount(res)
                                        - (IF target = "jira" THEN Len(res.epics) ELSE 0))}

\* C17: of two export() / preview() calls on one Jira or Linear exporter instance, made
\* one after the other or interleaved at the awaits of export(), the result of each
\* holds only entities created by its own network calls and errors of its own failed
\* calls, and the identifiers of every preview start again at 1.
C17_RunsAreIsolated ==
    /\ call = "export" => OwnOnly(result, calls)
    /\ other.call = "export" => OwnOnly(other.result, other.calls)
    /\ (call = "preview" /\ pc = "done") => (calls = <<>> /\ PreviewFromOne(result))
    /\ \A i \in 1..Len(previews) : PreviewFromOne(previews[i])

\* Two interleaved exports: each has created entities and has had a call fail.
C17_Witness ==
    /\ call = "export" /\ other.call = "export"
    /\ fails = 1 /\ other.fails = 1
    /\ Len(result.errors) = 1 /\ Len(other.result.errors) = 1
    /\ \E k \in 1..Len(calls) : calls[k].kind \in ItemKinds /\ calls[k].id # 0
    /\ \E k \in 1..Len(other.calls) : other.calls[k].kind \in ItemKinds /\ other.calls[k].id # 0

\* The titles of the items the parser returned, and of their children.
ReturnedTitles ==
    {ItemTitle(result.items[i]) : i \in 1..Len(result.items)}
    \cup UNION {{ItemTitle(ItemChildren(result.items[i])[c]) :
                    c \in 1..Len(ItemChildren(result.items[i]))} : i \in 1..Len(result.items)}

\* The number of items and children the parser returned.
ReturnedCount ==
    Len(result.items)
    + Len(FlatSeq([i \in 1..Len(result.items) |-> ItemChildren(result.items[i])]))

\* The markers of the parsed text the parser of the target recognizes.
ParsedMarkers ==
    UNION {{ParsedText[i].toks[j] : j \in {n \in 1..Len(ParsedText[i].toks) :
                                              IsMarkerTok(ParsedText[i].toks[n])}} :
              i \in 1..Len(ParsedText)}

\* The bullet and numbered lines of the text whose cleaned title is longer than 3.
LinesWithTitle ==
    {i \in 1..Len(ParsedText) : /\ ParsedText[i].k \in {"b", "n"}
                                /\ JsLength(CleanTitle(ParsedText[i].toks)) > 3}

\* C21: every item the Jira / Linear parser returns, from a bullet, an indented bullet
\* or a numbered line, has a title that is trimmed, longer than 3 characters and holds
\* no recognized marker; and a line whose cleaned title has 3 characters or fewer yields
\* no item, so there are no more items than lines with a longer cleaned title.
C21_TitlesAreClean ==
    (result.op = "parse" /\ target \in {"jira", "linear"})
    => /\ \A t \in ReturnedTitles :
             /\ t = trim(t)
             /\ JsLength(t) > 3
             /\ \A m \in ParsedMarkers : ~includes(t, m)
       /\ ReturnedCount <= Cardinality(LinesWithTitle)

\* C22: in what the Jira / Linear parser returns, an item of a numbered-list line (they
\* come after the items of the bullets) never has the title of an earlier item.
C22_NoDuplicateNumbered ==
    (result.op = "parse" /\ target \in {"jira", "linear"})
    => \A j \in (Len(ItemBullets(ParsedText)) + 1)..Len(result.items) :
          \A i \in 1..(j - 1) : ItemTitle(result.items[i]) # ItemTitle(result.items[j])

\* A child holds no list of children of its own.
IsLeaf(child) == "tasks" \notin DOMAIN child /\ "subtasks" \notin DOMAIN child

\* The titles of the children of the k-th item of the text: the indented bullets with a
\* title longer than 3 between the bullet that opens the item and the next one that
\* opens an item, in order.
ChildTitles(lines, k) ==
    LET at == SelectSeq([i \in 1..Len(lines) |-> i],
                        LAMBDA i : IsChildBullet(lines, i) /\ ItemsUpTo(lines, i) = k)
    IN  [c \in 1..Len(at) |-> CleanTitle(lines[at[c]].toks)]

\* C23 (as claimed): a child has no children, every bullet indented by 4 or more that
\* comes after an accepted top-level bullet is a child of the most recently accepted
\* top-level item, and the items hold no other children.
C23_EveryIndentedIsChild ==
    (result.op = "parse" /\ target \in {"jira", "linear"})
    => LET lines == ParsedText
       IN  /\ \A i \in 1..Len(result.items) :
                 \A c \in 1..Len(ItemChildren(result.items[i])) :
                    IsLeaf(ItemChildren(result.items[i])[c])
           /\ \A i \in 1..Len(lines) :
                 (lines[i].k = "b" /\ lines[i].indent >= 4 /\ ItemsUpTo(lines, i) >= 1)
                 => \E c \in 1..Len(ItemChildren(result.items[ItemsUpTo(lines, i)])) :
                       ItemTitle(ItemChildren(result.items[ItemsUpTo(lines, i)])[c])
                         = CleanTitle(lines[i].toks)
           /\ ReturnedCount - Len(result.items)
                <= Cardinality({i \in 1..Len(lines) :
                                   /\ lines[i].k = "b" /\ lines[i].indent >= 4
                                   /\ ItemsUpTo(lines, i) >= 1})

\* C23: the tree the Jira / Linear parser returns is one level deep: a child has no
\* children; the children of an item are, in order, the bullets indented by 4 or more,
\* whatever their depth, whose cleaned title is longer than 3 characters and that lie
\* between the bullet that opened the item and the next bullet that opens one; an
\* indented bullet before any accepted top-level bullet yields nothing, as does one
\* with a shorter title; and the items of numbered lines have no children.
C23_OneLevelTree ==
    (result.op = "parse" /\ target \in {"jira", "linear"})
    => LET lines == ParsedText
       IN  \A i \in 1..Len(result.items) :
              LET children == ItemChildren(result.items[i])
              IN  /\ \A c \in 1..Len(children) : IsLeaf(children[c])
                  /\ [c \in 1..Len(children) |-> ItemTitle(children[c])]
                       = IF i <= Len(ItemBullets(lines)) THEN ChildTitles(lines, i) ELSE <<>>

\* The text with bullets at several depths has been parsed: one item, whose children
\* are the bullets indented by 4 and by 8.
C23_Witness ==
    /\ result.op = "parse" /\ target \in {"jira", "linear"}
    /\ ParsedText = NestedText
    /\ Len(result.items) = 1
    /\ [c \in 1..2 |-> ItemTitle(ItemChildren(result.items[1])[c])]
         = <<"Add unit test", "Mock the server">>
    /\ Len(ItemChildren(result.items[1])) = 2

\* -------------------------------------------------- properties of the markers

\* The tokens of the bullet the parser ran on, and the item it made of it.
BulletToks == ParsedText[1].toks

BulletParsed == result.op = "parse" /\ Len(result.items) = 1

\* The priority table of the claim: the tier of a priority word (1 the highest).
TierOfWord ==
    [w \in {"p0", "urgent", "highest", "p1", "high", "p2", "medium", "p3", "low"} |->
        CASE w \in {"p0", "urgent", "highest"} -> 1
          [] w \in {"p1", "high"} -> 2
          [] w \in {"p2", "medium"} -> 3
          [] OTHER -> 4]

\* The tiers of the priority markers of a bullet, whatever their letter case.
TiersOf(toks) ==
    {TierOfWord[toLowerCase(Inside(toks[i]))] :
        i \in {j \in 1..Len(toks) : toLowerCase(Inside(toks[j])) \in DOMAIN TierOfWord}}

\* The target's name of a tier, and its value for no priority.
TierName(tier) ==
    IF target = "jira" THEN <<"Highest", "High", "Medium", "Low">>[tier]
    ELSE <<"urgent", "high", "medium", "low">>[tier]

NoPriority == IF target = "jira" THEN Undefined ELSE "none"

\* C24: the priority of the item of a bullet is the target's name of the highest tier
\* among the bullet's priority markers (p0, urgent, highest: highest tier; p1, high:
\* high; p2, medium: medium; p3, low: low; in any letter case), and the target's
\* unset value when the bullet has no priority marker.
C24_PriorityTable ==
    BulletParsed
    => result.items[1].priority
         = IF TiersOf(BulletToks) = {} THEN NoPriority
           ELSE TierName(CHOOSE t \in TiersOf(BulletToks) : \A u \in TiersOf(BulletToks) : t <= u)

\* The hours an estimate marker [N<unit>] stands for by the claim's conversion (NoNumber
\* for a token that is no such marker): N for hours and points, 8 N for days, 40 N for
\* weeks.
ClaimedEstimate(tok) ==
    LET in   == Inside(tok)
        n    == DigitsLen(in)
        unit == toLowerCase(SubSeq(in, n + 1, Len(in)))
    IN  IF n = 0 THEN NoNumber
        ELSE CASE unit \in {"h", "pt", "points"} -> parseInt(SubSeq(in, 1, n))
               [] unit = "d" -> 8 * parseInt(SubSeq(in, 1, n))
               [] unit = "w" -> 40 * parseInt(SubSeq(in, 1, n))
               [] OTHER -> NoNumber

\* The estimate markers of a bullet, in order.
EstimateMarkers(toks) == SelectSeq(toks, LAMBDA tok : ClaimedEstimate(tok) # NoNumber)

\* C25: the estimate of the item of a bullet is the conversion of the bullet's first
\* estimate marker (N hours: N, N days: 8 N, N weeks: 40 N, N points: N), and the item
\* has no estimate when the bullet has no estimate marker.
C25_EstimateConversion ==
    BulletParsed
    => ItemEstimate(result.items[1])
         = IF EstimateMarkers(BulletToks) = <<>> THEN NoNumber
           ELSE ClaimedEstimate(EstimateMarkers(BulletToks)[1])

\* C26: the labels of the item of a bullet are the vocabulary words that occur
\* bracket-marked in the bullet, in lower case and each once; a bracket-marked word
\* outside the vocabulary is no label.
C26_LabelsAreASet ==
    BulletParsed
    => LET labels == result.items[1].labels
       IN  /\ Range(labels)
                = {toLowerCase(Inside(BulletToks[i])) : i \in 1..Len(BulletToks)}
                  \cap LabelVocabulary
           /\ \A i, j \in 1..Len(labels) : labels[i] = labels[j] => i = j

\* ---------------------------------------------- properties of the phases

\* The keywords of the phase regex of the target.
PhaseKeywords ==
    IF target = "jira" THEN {"phase", "sprint", "cycle", "milestone", "release"}
    ELSE {"phase", "sprint", "cycle", "milestone"}

RECURSIVE IsMatch(_, _)
\* Line i of a text starts a match of the phase regex: it is a header with a phase
\* keyword, and not the line the match before it took its name from.
IsMatch(lines, i) ==
    /\ lines[i].k = "h" /\ toLowerCase(lines[i].kw) \in PhaseKeywords
    /\ ~(i > 1 /\ lines[i - 1].rest = "" /\ IsMatch(lines, i - 1))

\* The name of the phase of the match at line i.
MatchName(lines, i) ==
    IF lines[i].rest # "" THEN trim(lines[i].rest)
    ELSE IF i < Len(lines) THEN trim(LineText(lines[i + 1]))
    ELSE trim(lines[i].kw \o " " \o lines[i].num)

\* The names of the matches of the documents: document by document, match by match.
MatchNames ==
    FlatSeq([d \in 1..Len(documents) |->
               LET lines == documents[d].content
                   at    == SelectSeq([i \in 1..Len(lines) |-> i], LAMBDA i : IsMatch(lines, i))
               IN  [m \in 1..Len(at) |-> MatchName(lines, at[m])]])

\* C27: when the documents hold a match of the phase regex, the phases the Jira /
\* Linear exporter extracts are one per match, in the order of the documents and within
\* a document in the order of the matches, each under the name of its match: as many
\* phases as matches, two matches of one name giving two phases.
C27_OnePhasePerMatch ==
    (result.op = "phases" /\ target \in {"jira", "linear"} /\ Len(MatchNames) >= 1)
    => [i \in 1..Len(result.phases) |-> result.phases[i].name] = MatchNames

\* The phases of the two documents have been extracted: the name Foundation comes
\* twice, once per document.
C27_Witness ==
    /\ result.op = "phases" /\ target \in {"jira", "linear"}
    /\ documents = PhaseDocs
    /\ Len(result.phases) = Len(MatchNames) /\ Len(result.phases) >= 3
    /\ result.phases[1].name = "Foundation" /\ result.phases[3].name = "Foundation"
    /\ result.phases[2].name = "## Sprint 3: Beta"

\* --------------------------------------------- properties of the requests

\* The names of the labels of the run whose ids a request carries.
LabelNamesOf(req) ==
    {toLowerCase(result.labels[i].name) :
        i \in {j \in 1..Len(result.labels) : result.labels[j].id \in Range(req.labels)}}

\* C28: in a Linear export the create request of a top-level issue carries the labels
\* parsed from the issue's own bullet and no other, none when the bullet has no label
\* marker, and the create request of a sub-task carries no label.
C28_OwnLabelsOnly ==
    (target = "linear" /\ call = "export" /\ Live)
    => \A k \in Idx :
          calls[k].op = "createIssue"
          => IF calls[k].kind = "issue"
             THEN LabelNamesOf(calls[k].req)
                    = Range(ItemsOfDocuments[calls[k].ref[1]].tasks[calls[k].ref[2]].labels)
             ELSE calls[k].req.labels = <<>>

\* --------------------------------------------- properties of termination

\* C29: a call of export(), of any target and whichever of its network calls fail,
\* reaches its return statement with a result: it never stops at a thrown error.
C29_ExportResolves ==
    (call = "export" /\ pc # "done") ~> (call = "export" /\ pc = "done")

\* A live export has reached its return statement after MaxFail of its calls failed.
C29_Witness ==
    /\ call = "export" /\ pc = "done" /\ Live
    /\ fails = MaxFail
    /\ Len(result.errors) >= 1

\* --------------------------------------------- properties of the estimates

\* The top-level work item a create request was made for.
ItemOfCall(c) ==
    IF target = "jira" THEN ItemsOfDocuments[c.ref[1]].stories[c.ref[2]]
    ELSE ItemsOfDocuments[c.ref[1]].tasks[c.ref[2]]

\* C30: in a Jira or a Linear export the create request of a top-level work item carries
\* the estimate parsed from the item's bullet: the story points in Jira, the estimate in
\* Linear.
C30_EstimateReachesTarget ==
    (target \in {"jira", "linear"} /\ Live)
    => \A k \in Idx :
          (calls[k].op = "createIssue" /\ calls[k].kind \in {"story", "issue"})
          => calls[k].req.estimate = ItemEstimate(ItemOfCall(calls[k]))

====
